---- MODULE Spec2Model ----
(***************************************************************************)
(* Model of the spacebot cron scheduler (src/src/cron/scheduler.rs) and    *)
(* of the cron tool that drives it (src/src/tools/cron.rs), of the memory  *)
(* store and its hybrid search (src/src/memory) and of the shutdown of the *)
(* messaging adapters (src/src/messaging).                                 *)
(*                                                                         *)
(* A step of the model is the code between two suspension points.  No      *)
(* critical section of the source contains an `.await`, so the acquisition *)
(* of a lock, the block it guards and the drop of the guard are one step,  *)
(* enabled when the lock can be taken.  A timer task is a process of its   *)
(* own; scheduler operations are run by concurrent callers (API handlers   *)
(* and tool calls share the scheduler through an Arc).                     *)
(***************************************************************************)
EXTENDS Integers, Sequences, FiniteSets, TLC

\* ------------------------------------------------------------------ bounds
NumCallers == 2
MaxTasks == 2
MaxOps == 2

\* the memory store: rows, and calls followed (store operations and searches)
NumMemories == 4
MaxMemSteps == 3

\* the adapters: room in the inbound channel (256 in the source), calls of
\* shutdown followed, messages counted after the shutdown signal
InboundCapacity == 1
MaxShutdowns == 2
MaxAfter == 2

\* the email inbox: mails in it, polls followed, seconds between two polls
\* that succeed
NumMails == 2
MaxPolls == 8
\* mails that reach parse_inbound_email
MaxInbound == 2
\* telegram streams: clock ticks, placeholders sent, edit requests sent
MaxStreamClock == 5
MaxPlaceholders == 2
MaxEditRequests == 4
MaxStreamChunks == 2
\* webhook: responses emitted, polls answered
MaxResponses == 3
MaxPollCalls == 3
\* POST /api/links requests
MaxLinkRequests == 3
\* ingestion: files in the directory, chunks of a file
NumIngestFiles == 2
MaxChunks == 3
\* telegram typing indicator tasks spawned
MaxTypingTasks == 3
\* conversation log: log calls, seconds of the database clock, load_recent calls
MaxLogCalls == 3
MaxLogClock == 1
MaxLoads == 1
poll_interval == 60

\* the ticker: clock resolution (units per second), latest start, longest
\* time between two calls of tick(), ticks followed
Hz == 2
MaxStart == 9
MaxWork == 9
MaxFires == 2

\* the collection loop: seconds on the clock, responses a channel emits
MaxClock == 124
MaxEmit == 2
MaxTimeoutSecs == 2

\* scheduler.rs:105
MAX_CONSECUTIVE_FAILURES == 3

\* scheduler.rs:552
DEFAULT_TIMEOUT_SECS == 120

\* scheduler.rs:196
SECS_PER_DAY == 86400

\* email.rs:22, email.rs:298
EMAIL_MAX_RETRY_BACKOFF_SECS == 300
INITIAL_RETRY_BACKOFF_SECS == 5

\* twitch.rs:155, telegram.rs:105: mpsc::channel::<()>(1)
SHUTDOWN_CAPACITY == 1

\* hybrid_search: get_high_importance(0.8, 20), the threshold in tenths
SEED_THRESHOLD == 8
SEED_LIMIT == 20

Ids == {"a"}
Callers == 1..NumCallers
Tasks == 1..MaxTasks

VARIABLES
    jobs,       \* Scheduler.jobs: id -> CronJob (present = FALSE: no entry)
    timers,     \* Scheduler.timers: id -> JoinHandle (task number, 0: no entry)
    store,      \* CronStore rows: id -> CronConfig (present = FALSE: no row)
    task,       \* the spawned timer tasks
    caller,     \* the callers of the scheduler's public operations
    jobsLock,   \* RwLock around jobs: writer and set of readers
    timersLock, \* RwLock around timers: writer (the source only takes write())
    detached,   \* id -> number of channel tasks running with no owner left
    nspawn,     \* number of timer tasks spawned so far
    ops,        \* number of operations started so far
    streak,     \* id -> failed timer executions in a row: all of them (run) and
                \* those since the job was last inserted (job)
    col,        \* one run of run_cron_job's collection loop, with its clock
    tm,         \* one timer task's ticker, with the wall clock
    mem,        \* the memory store, its search index and the last search
    ad,         \* one messaging adapter, its ingest task and its channels
    em,         \* the email inbox, the poll loop and what it has emitted
    th,         \* email threading: the mails parsed so far
    tg,         \* telegram streaming: active streams and the edit requests sent
    wh,         \* webhook responses: the buffers and what was emitted and polled
    lk,         \* agent links: the list in memory, config.toml and the requests
    ing,        \* ingestion: the files of the ingest directory and the file in work
    ty,         \* telegram typing: typing_tasks and the indicator tasks alive
    hist          \* conversation log: the insert tasks and the rows

sched == <<jobs, timers, store, task, caller, jobsLock, timersLock, detached,
           nspawn, ops, streak>>

\* the variables of the other parts of the model
other == <<col, tm, mem, ad, em, th, tg, wh, lk, ing, ty, hist>>

\* what a step of the collection loop leaves alone; what a ticker step does
exceptCol == <<sched, tm, mem, ad, em, th, tg, wh, lk, ing, ty, hist>>
exceptTm == <<sched, col, mem, ad, em, th, tg, wh, lk, ing, ty, hist>>
exceptMem == <<sched, col, tm, ad, em, th, tg, wh, lk, ing, ty, hist>>
exceptAd == <<sched, col, tm, mem, em, th, tg, wh, lk, ing, ty, hist>>
exceptEmail == <<sched, col, tm, mem, ad, th, tg, wh, lk, ing, ty, hist>>
exceptThread == <<sched, col, tm, mem, ad, em, tg, wh, lk, ing, ty, hist>>
exceptTelegram == <<sched, col, tm, mem, ad, em, th, wh, lk, ing, ty, hist>>
exceptWebhook == <<sched, col, tm, mem, ad, em, th, tg, lk, ing, ty, hist>>
exceptLinks == <<sched, col, tm, mem, ad, em, th, tg, wh, ing, ty, hist>>
exceptIngest == <<sched, col, tm, mem, ad, em, th, tg, wh, lk, ty, hist>>
exceptTyping == <<sched, col, tm, mem, ad, em, th, tg, wh, lk, ing, hist>>
exceptHistory == <<sched, col, tm, mem, ad, em, th, tg, wh, lk, ing, ty>>

vars == <<sched, other>>

\* ------------------------------------------------------------- delivery targets
\* A raw target string is a sequence of tokens; ":" is the separator, "1" is a
\* run of ASCII digits, "x" a run of other characters.
Colon == ":"

IndexOfColon(s) ==
    IF \E i \in 1..Len(s) : s[i] = Colon
    THEN CHOOSE i \in 1..Len(s) : s[i] = Colon /\ \A j \in 1..(i - 1) : s[j] # Colon
    ELSE 0

AllDigits(s) == \A i \in 1..Len(s) : s[i] = "1"

NoTarget == [adapter |-> <<>>, target |-> <<>>]

DeliveryTargetParse(raw) ==
    LET k == IndexOfColon(raw) IN
    IF k = 0 THEN NoTarget
    ELSE LET adapter == SubSeq(raw, 1, k - 1)
             target == SubSeq(raw, k + 1, Len(raw))
         IN IF adapter = <<>> \/ target = <<>> THEN NoTarget
            ELSE [adapter |-> adapter, target |-> target]

normalize_delivery_target(raw) ==
    LET k == IndexOfColon(raw) IN
    IF k = 0 THEN NoTarget
    ELSE LET adapter == SubSeq(raw, 1, k - 1)
             target == SubSeq(raw, k + 1, Len(raw))
             k2 == IndexOfColon(target)
         IN IF adapter = <<>> \/ target = <<>> THEN NoTarget
            ELSE IF adapter = <<"discord">>
            THEN IF Len(target) >= 2 /\ SubSeq(target, 1, 2) = <<"dm", Colon>>
                 THEN LET user_id == SubSeq(target, 3, Len(target)) IN
                      IF user_id # <<>> /\ AllDigits(user_id)
                      THEN [adapter |-> adapter, target |-> target]
                      ELSE NoTarget
                 ELSE IF k2 # 0
                 THEN LET channel_id == SubSeq(target, k2 + 1, Len(target)) IN
                      IF channel_id # <<>> /\ AllDigits(channel_id)
                      THEN [adapter |-> adapter, target |-> channel_id]
                      ELSE NoTarget
                 ELSE IF AllDigits(target)
                 THEN [adapter |-> adapter, target |-> target]
                 ELSE NoTarget
            ELSE DeliveryTargetParse(raw)

TargetSamples ==
    { <<"discord", Colon, "1">>,
      <<"discord", Colon, "x">>,
      <<"slack">> }

\* ------------------------------------------------------------------ records
\* CronJob: the fields the scheduler's control flow reads.  active_hours only
\* makes a tick `continue`, which leaves the state as it was before the tick.
NoJob == [present |-> FALSE, enabled |-> FALSE, run_once |-> FALSE, fails |-> 0]

NoRow == [present |-> FALSE, enabled |-> FALSE, run_once |-> FALSE, tgt |-> <<>>]

CronConfig == [enabled : BOOLEAN, run_once : BOOLEAN, tgt : TargetSamples]

NoConfig == [enabled |-> FALSE, run_once |-> FALSE, tgt |-> <<>>]

NoOne == <<"-", 0>>
CallerProc(c) == <<"c", c>>
TaskProc(t) == <<"t", t>>

FreeTask == [id |-> "", pc |-> "free", once |-> FALSE, chan |-> FALSE,
             third |-> FALSE]

IdleCaller(r) == [op |-> "idle", pc |-> "idle", id |-> "", cfg |-> NoConfig,
                  en |-> FALSE, h |-> 0, hs |-> {}, ret |-> r, chan |-> FALSE,
                  tk |-> FALSE, dup |-> FALSE]

\* One run of the collection loop: the clock counts seconds, `elapsed` since
\* the loop began and `waited` since the current recv() began.
NoCollect == [pc |-> "off", timeout |-> 0, elapsed |-> 0, waited |-> 0,
              chan |-> "none", texts |-> <<>>, emitted |-> 0,
              sent |-> <<>>, result |-> "none"]

\* The ticker of one timer task.  Times are in units of 1/Hz second; `start`
\* is the time at which the spawned future computes first_tick.
NoTicker == [pc |-> "off", interval_secs |-> 0, active_hours |-> <<>>,
             now |-> 0, start |-> 0, first |-> 0, deadline |-> 0,
             fires |-> 0, late |-> FALSE, hour |-> 0, ran |-> FALSE]

\* The memory store.  Ids stand for the UUIDs, in the order of the rows;
\* importance is in tenths; scores are in units of 1/RrfScale.
MemIds == 1..NumMemories

NoMemory == [present |-> FALSE, content |-> <<>>, memory_type |-> "fact",
             importance |-> 0, updated_at |-> 0, forgotten |-> FALSE]

\* what text_search or vector_search answers: Err, or Ok with the ids found
Unavailable == [ok |-> FALSE, ids |-> <<>>]

NoArgs == [query |-> <<>>,
           config |-> [max_results_per_source |-> 0, rrf_k |-> 0,
                       min_score |-> 0, max_graph_depth |-> 0],
           fts |-> Unavailable, vec |-> Unavailable]

NoOp == [op |-> "none", id |-> 0, ret |-> FALSE]

\* memories, associations: the two tables; nops also serves as the clock of
\* chrono::Utc::now(); args, graph, results: the last hybrid_search, with its
\* graph_results; dirty: a table changed since then; last: the last store
\* operation; tomb: the rows that have been marked forgotten
NoMem == [memories |-> [i \in MemIds |-> NoMemory], associations |-> {},
          nops |-> 0, calls |-> 0, args |-> NoArgs, graph |-> <<>>,
          results |-> <<>>, dirty |-> FALSE, last |-> NoOp, tomb |-> {}]

\* A messaging adapter as new() leaves it.  shutdown_tx, client and poll_task
\* are Options, TRUE for Some; signal counts what the shutdown channel holds
\* (the value of the watch channel for email); ingest is where the spawned
\* loop is, inbound what the inbound channel holds, consumer whether the
\* stream start() returned is still polled; call is where the running
\* shutdown() is, returned how many calls have returned and left the
\* adapter's fields as each of them left them.  inbound_tx is the sender the
\* webhook adapter keeps for its handlers; after counts the messages the
\* loop has taken up since the shutdown signal was sent.
NoAdapter == [kind |-> "twitch", shutdown_tx |-> FALSE, client |-> FALSE,
              poll_task |-> FALSE, typing |-> FALSE, signal |-> 0,
              inbound_tx |-> FALSE, after |-> 0,
              ingest |-> "off", inbound |-> 0, consumer |-> TRUE,
              call |-> "idle", returned |-> 0, left |-> <<>>]

\* The inbox the email adapter polls and its poll loop.  mail: per UID the
\* folder and what parse_inbound_email makes of the mail; implicit: the server
\* sets \Seen when the body of a mail is fetched; seen: the UIDs flagged
\* \Seen; emitted: how often each mail went out on the inbound stream; fault:
\* what went wrong in the last poll; failed: the UIDs whose fetch or parse
\* failed in it; pending: the messages of the last poll still to forward;
\* delay: the sleep that follows; fails: polls that failed in a row.
MailIds == 1..NumMails
NoFault == <<"none", 0>>

NoEmail == [mail |-> [u \in MailIds |-> [folder |-> 1, kind |-> "accepted"]],
            implicit |-> FALSE, seen |-> {}, emitted |-> [u \in MailIds |-> 0],
            pc |-> "off", polls |-> 0, fault |-> NoFault, failed |-> {},
            pending |-> <<>>, retry_backoff |-> 0, delay |-> 0, fails |-> 0]

\* Email threading.  log: one entry per mail handed to parse_inbound_email, its
\* headers and the conversation id derived for it.
NoThread == [log |-> <<>>]

\* Telegram streaming.  now: the monotonic clock in units of 1/Hz second;
\* active: active_messages, per conversation; lock: the conversation whose
\* StreamChunk holds the write lock over an edit request in flight, with the form
\* of that request; log: the edit_message_text requests sent so far;
\* sent: messages sent so far, the next placeholder gets the id sent + 1;
\* message: per message sent, the StreamChunks received for it (the text of a
\* chunk is its number), the chunk whose text the message shows (0: the
\* placeholder "...") and whether StreamEnd has been handled for it.
Conversations == {"telegram:1", "telegram:2"}
StreamMessages == 1..MaxPlaceholders
NoStream == [some |-> FALSE, message_id |-> 0, last_edit |-> 0]
NoLock == [conv |-> "", form |-> "none", chunk |-> 0]
NoStreamMessage == [received |-> 0, shown |-> 0, ended |-> FALSE]
NoTelegram == [now |-> 0, active |-> [c \in Conversations |-> NoStream],
               lock |-> NoLock, log |-> <<>>, sent |-> 0,
               message |-> [m \in StreamMessages |-> NoStreamMessage]]

\* Webhook responses.  buffers: response_buffers, a key that is not in the map
\* holds the empty list; emitted: the responses handed to respond(), per
\* conversation id of the message, in call order; polled: what the polls of a
\* key returned, in poll order; n: responses emitted; polls: polls answered.
WebhookIds == {"a", "b"}
WebhookKey(id) == "webhook:" \o id
WebhookKeys == {WebhookKey(id) : id \in WebhookIds}
NoWebhook == [buffers |-> [k \in WebhookKeys |-> <<>>],
              emitted |-> [k \in WebhookKeys |-> <<>>],
              polled |-> [k \in WebhookKeys |-> <<>>], n |-> 0, polls |-> 0]

\* Agent links.  agent_links: the list in memory; config: the [[links]] tables of
\* config.toml; req: the POST /api/links requests, each with its body, the
\* snapshot of agent_links it loaded, the document it read and its status code
\* ("" until the handler returns).
LinkRequests == 1..MaxLinkRequests
NoLinkRequest == [pc |-> "new", from |-> "", to |-> "", existing |-> <<>>,
                  doc |-> <<>>, status |-> ""]
NoLinks == [agent_links |-> <<>>, config |-> <<>>,
            req |-> [r \in LinkRequests |-> NoLinkRequest]]

\* Ingestion.  file: per file of the ingest directory, whether it is on disk, the
\* number of its chunks and the chunks whose process_chunk returned Err;
\* at: the file that process_file works on (0: between files), chunk: the
\* chunks of it handled so far, pc: where process_file stands.
IngestFiles == 1..NumIngestFiles
NoIngestFile == [present |-> FALSE, total |-> 0, failed |-> {}, result |-> "none"]
NoIngest == [file |-> [f \in IngestFiles |-> NoIngestFile], at |-> 0, chunk |-> 0,
             pc |-> "off"]

\* Telegram typing indicators.  typing_tasks: the handle kept per conversation
\* (0: none); conv: the conversation of each task spawned; live: the tasks that
\* run; quiet: per conversation, whether the last call for it was a response or
\* the shutdown of the adapter rather than a Thinking status; spawned: tasks so far.
TypingTasks == 1..MaxTypingTasks
NoTyping == [typing_tasks |-> [c \in Conversations |-> 0],
             conv |-> [t \in TypingTasks |-> ""], live |-> {},
             quiet |-> [c \in Conversations |-> TRUE], spawned |-> 0]

\* Conversation log.  calls: log calls made so far, the n-th call logs message
\* n; role, channel: of each message; pending: the spawned insert tasks that
\* have not run; rows: the rows of conversation_messages in insertion order,
\* each with the clock of the database at its INSERT; clock: that clock, in
\* seconds; loaded: what the last load_recent returned, as message numbers.
LogMessages == 1..MaxLogCalls
Channels == {"c1", "c2"}
NoHistory == [calls |-> 0, role |-> [m \in LogMessages |-> ""],
              channel |-> [m \in LogMessages |-> ""], pending |-> {}, rows |-> <<>>,
              clock |-> 0, loaded |-> <<>>, loads |-> 0]

\* Option<u64>
None == [some |-> FALSE, v |-> 0]
Some(n) == [some |-> TRUE, v |-> n]
unwrap_or(o, d) == IF o.some THEN o.v ELSE d

LivePc(pc) == pc \notin {"free", "done", "aborted"}

Live(t) == LivePc(task[t].pc)

\* ------------------------------------------------------------------ init
\* Scheduler::new: both tables empty.  The store is persistent: it may hold the
\* row of a job that was disabled when the process started and so was never
\* loaded into the scheduler.
StartupRows ==
    {NoRow, [present |-> TRUE, enabled |-> FALSE, run_once |-> FALSE,
             tgt |-> <<"discord", Colon, "1">>]}

InitSched(rows) ==
    /\ jobs = [i \in Ids |-> NoJob]
    /\ timers = [i \in Ids |-> 0]
    /\ store \in [Ids -> rows]
    /\ task = [t \in Tasks |-> FreeTask]
    /\ caller = [c \in Callers |-> IdleCaller("none")]
    /\ jobsLock = [w |-> NoOne, r |-> {}]
    /\ timersLock = NoOne
    /\ detached = [i \in Ids |-> 0]
    /\ nspawn = 0
    /\ ops = 0
    /\ streak = [i \in Ids |-> [run |-> 0, job |-> 0]]

Init ==
    /\ InitSched(StartupRows)
    /\ hist = NoHistory
    /\ ty = NoTyping
    /\ ing = NoIngest
    /\ lk = NoLinks
    /\ wh = NoWebhook
    /\ tg = NoTelegram
    /\ th = NoThread
    /\ em = NoEmail
    /\ col = NoCollect
    /\ tm = NoTicker
    /\ mem = NoMem
    /\ ad = NoAdapter

\* ------------------------------------------------------------------ locks
\* tokio::sync::RwLock: write() needs the lock free, read() needs no writer.
\* A process that already holds the lock and asks again waits for itself.
CanWriteJobs(p) == jobsLock.w = NoOne /\ jobsLock.r = {}
CanReadJobs(p) == jobsLock.w = NoOne /\ p \notin jobsLock.r
CanWriteTimers(p) == timersLock = NoOne

\* The guard is dropped at the end of the block.
JobsReleased(p) ==
    [w |-> IF jobsLock.w = p THEN NoOne ELSE jobsLock.w, r |-> jobsLock.r \ {p}]

TimersReleased(p) == NoOne

\* JoinHandle::abort: the task is cancelled at its next suspension point; the
\* futures it owns are dropped, which releases a guard it holds and detaches
\* (does not stop) the channel task whose JoinHandle it owned.
TaskAfterAbort(t) ==
    IF t # 0 /\ Live(t)
    THEN [task EXCEPT ![t].pc = "aborted", ![t].chan = FALSE]
    ELSE task

DetachedAfterAbort(t) ==
    IF t # 0 /\ Live(t) /\ task[t].chan
    THEN [detached EXCEPT ![task[t].id] = @ + 1]
    ELSE detached

Min(a, b) == IF a < b THEN a ELSE b

\* ------------------------------------------------------------------ timer task
\* The spawned future looks up interval_secs under jobs.read(), computes the
\* first tick and creates the ticker.
TimerInit(t) ==
    /\ task[t].pc = "init"
    /\ CanReadJobs(TaskProc(t))
    /\ jobsLock' = JobsReleased(TaskProc(t))
    /\ task' = [task EXCEPT ![t].pc = "sleep"]
    /\ UNCHANGED <<jobs, timers, store, caller, timersLock, detached, nspawn, ops, streak, other>>

\* ticker.tick().await completes; the job is reloaded under jobs.read(); a
\* missing or disabled job ends the loop; otherwise run_cron_job starts and
\* runs to its first await (Channel::new, tokio::spawn of the channel loop).
TimerTick(t) ==
    LET j == jobs[task[t].id] IN
    /\ task[t].pc = "sleep"
    /\ CanReadJobs(TaskProc(t))
    /\ jobsLock' = JobsReleased(TaskProc(t))
    /\ IF ~j.present \/ ~j.enabled
       THEN task' = [task EXCEPT ![t].pc = "done"]
       ELSE task' = [task EXCEPT ![t].pc = "send", ![t].once = j.run_once,
                                 ![t].chan = TRUE]
    /\ UNCHANGED <<jobs, timers, store, caller, timersLock, detached, nspawn, ops, streak, other>>

\* run_cron_job has returned Ok (ok) or Err (~ok) to the timer loop, which goes
\* on to await jobs.write() in the matching arm.
TimerResult(t, ok) ==
    LET id == task[t].id
        Count(n) == IF ok THEN 0 ELSE Min(n + 1, MAX_CONSECUTIVE_FAILURES)
    IN
    /\ task' = [task EXCEPT ![t].pc = IF ok THEN "ok" ELSE "err",
                            ![t].chan = FALSE,
                            ![t].third = (Count(streak[id].job) >= MAX_CONSECUTIVE_FAILURES)]
    /\ streak' = [streak EXCEPT ![id] = [run |-> Count(@.run), job |-> Count(@.job)]]

\* channel_tx.send(message).await: fails when the channel loop is already gone.
TimerSend(t) ==
    /\ task[t].pc = "send"
    /\ \/ /\ task' = [task EXCEPT ![t].pc = "collect"]
          /\ UNCHANGED streak
       \/ TimerResult(t, FALSE)
    /\ UNCHANGED <<jobs, timers, store, caller, jobsLock, timersLock, detached, nspawn, ops, other>>

\* The collection loop and channel_handle.await: the loop ends when the channel
\* closes response_tx or when a recv times out (the channel is then aborted).
TimerCollect(t) ==
    /\ task[t].pc = "collect"
    /\ task' = [task EXCEPT ![t].pc = "deliver", ![t].chan = FALSE]
    /\ UNCHANGED <<jobs, timers, store, caller, jobsLock, timersLock, detached, nspawn, ops, streak, other>>

\* Delivery and log_execution: Err when there is text and broadcast fails.
TimerDeliver(t) ==
    /\ task[t].pc = "deliver"
    /\ \E ok \in BOOLEAN : TimerResult(t, ok)
    /\ UNCHANGED <<jobs, timers, store, caller, jobsLock, timersLock, detached, nspawn, ops, other>>

\* Ok arm: reset the failure count; then the run_once check.
TimerOk(t) ==
    LET id == task[t].id IN
    /\ task[t].pc = "ok"
    /\ CanWriteJobs(TaskProc(t))
    /\ jobs' = IF jobs[id].present THEN [jobs EXCEPT ![id].fails = 0] ELSE jobs
    /\ jobsLock' = JobsReleased(TaskProc(t))
    /\ task' = [task EXCEPT ![t].pc = IF task[t].once THEN "once" ELSE "sleep"]
    /\ UNCHANGED <<timers, store, caller, timersLock, detached, nspawn, ops, streak, other>>

\* A timer loop whose Err arm skips the run_once check.
TimerErrNoRunOnceCheck(t) ==
    LET id == task[t].id
        should_disable == jobs[id].present
                          /\ jobs[id].fails + 1 >= MAX_CONSECUTIVE_FAILURES
    IN
    /\ task[t].pc = "err"
    /\ CanWriteJobs(TaskProc(t))
    /\ jobs' = IF jobs[id].present THEN [jobs EXCEPT ![id].fails = @ + 1] ELSE jobs
    /\ jobsLock' = JobsReleased(TaskProc(t))
    /\ task' = [task EXCEPT ![t].pc = IF should_disable THEN "dis" ELSE "sleep"]
    /\ UNCHANGED <<timers, store, caller, timersLock, detached, nspawn, ops, streak, other>>

\* Err arm: count the failure and decide whether the breaker trips.
TimerErr(t) ==
    LET id == task[t].id
        should_disable == jobs[id].present
                          /\ jobs[id].fails + 1 >= MAX_CONSECUTIVE_FAILURES
    IN
    /\ task[t].pc = "err"
    /\ CanWriteJobs(TaskProc(t))
    /\ jobs' = IF jobs[id].present THEN [jobs EXCEPT ![id].fails = @ + 1] ELSE jobs
    /\ jobsLock' = JobsReleased(TaskProc(t))
    /\ task' = [task EXCEPT ![t].pc = IF should_disable THEN "dis"
                                      ELSE IF task[t].once THEN "once" ELSE "sleep"]
    /\ UNCHANGED <<timers, store, caller, timersLock, detached, nspawn, ops, streak, other>>

\* enabled = false in memory, by the breaker ("dis") or by run_once ("once").
TimerDisable(t) ==
    LET id == task[t].id IN
    /\ task[t].pc \in {"dis", "once"}
    /\ CanWriteJobs(TaskProc(t))
    /\ jobs' = IF jobs[id].present THEN [jobs EXCEPT ![id].enabled = FALSE] ELSE jobs
    /\ jobsLock' = JobsReleased(TaskProc(t))
    /\ task' = [task EXCEPT ![t].pc = IF task[t].pc = "dis" THEN "dis_persist"
                                      ELSE "once_persist"]
    /\ UNCHANGED <<timers, store, caller, timersLock, detached, nspawn, ops, streak, other>>

\* CronStore::update_enabled(id, enabled): an UPDATE of the row, if there is one.
update_enabled(id, en) ==
    IF store[id].present THEN [store EXCEPT ![id].enabled = en] ELSE store

\* context.store.update_enabled(&job_id, false).await, then break.
TimerPersist(t) ==
    /\ task[t].pc \in {"dis_persist", "once_persist"}
    /\ store' = update_enabled(task[t].id, FALSE)
    /\ task' = [task EXCEPT ![t].pc = "done"]
    /\ UNCHANGED <<jobs, timers, caller, jobsLock, timersLock, detached, nspawn, ops, streak, other>>

\* A channel task whose owner was cancelled runs on until its loop ends.
ChannelExit(id) ==
    /\ detached[id] > 0
    /\ detached' = [detached EXCEPT ![id] = @ - 1]
    /\ UNCHANGED <<jobs, timers, store, task, caller, jobsLock, timersLock, nspawn, ops, streak, other>>

TimerStep(t) ==
    \/ TimerInit(t) \/ TimerTick(t) \/ TimerSend(t) \/ TimerCollect(t)
    \/ TimerDeliver(t) \/ TimerOk(t) \/ TimerErr(t) \/ TimerDisable(t)
    \/ TimerPersist(t)

\* ------------------------------------------------------------------ callers
\* An operation that will still call start_timer needs a free task slot.
MaySpawn(c) ==
    /\ caller[c].h = 0
    /\ \/ caller[c].op \in {"register", "create"} /\ caller[c].cfg.enabled
       \/ caller[c].op = "set_enabled" /\ caller[c].en

SpawnsLeft == MaxTasks - nspawn - Cardinality({c \in Callers : MaySpawn(c)})

Begin(c, op, pc, id, cfg, en) ==
    /\ caller[c].op = "idle"
    /\ ops < MaxOps
    /\ ops' = ops + 1
    /\ caller' = [caller EXCEPT ![c] = [IdleCaller("none") EXCEPT
                     !.op = op, !.pc = pc, !.id = id, !.cfg = cfg, !.en = en]]

Return(c, r) == caller' = [caller EXCEPT ![c] = IdleCaller(r)]

\* An operation that returns an error before its first await.
Reject(c) ==
    /\ caller[c].op = "idle"
    /\ ops < MaxOps
    /\ ops' = ops + 1
    /\ Return(c, "err")

Goto(c, pc) == caller' = [caller EXCEPT ![c].pc = pc]

\* The failures of a job that is inserted anew are counted from zero.
StreakAfterInsert(id) == [streak EXCEPT ![id].job = 0]

TaskAfterInsert(id) ==
    [t \in Tasks |-> IF task[t].id = id THEN [task[t] EXCEPT !.third = FALSE]
                     ELSE task[t]]

NewJob(cfg, enabled) ==
    [present |-> TRUE, enabled |-> enabled, run_once |-> cfg.run_once, fails |-> 0]

\* --- Scheduler::register
RegisterCall(c) ==
    \E id \in Ids, cfg \in CronConfig :
        /\ IF normalize_delivery_target(cfg.tgt) = NoTarget
           THEN Reject(c)
           ELSE /\ cfg.enabled => SpawnsLeft > 0
                /\ Begin(c, "register", "reg", id, cfg, FALSE)
        /\ UNCHANGED <<jobs, timers, store, task, jobsLock, timersLock, detached, nspawn, streak, other>>

\* A register that calls start_timer whatever config.enabled says.
RegInsertAlwaysStarts(c) ==
    LET id == caller[c].id
        cfg == caller[c].cfg
    IN
    /\ caller[c].pc = "reg"
    /\ CanWriteJobs(CallerProc(c))
    /\ nspawn < MaxTasks
    /\ jobs' = [jobs EXCEPT ![id] = NewJob(cfg, cfg.enabled)]
    /\ streak' = StreakAfterInsert(id)
    /\ task' = TaskAfterInsert(id)
    /\ jobsLock' = JobsReleased(CallerProc(c))
    /\ Goto(c, "st1")
    /\ UNCHANGED <<timers, store, timersLock, detached, nspawn, ops, other>>

\* jobs.write(): jobs.insert(config.id, job); then start_timer if config.enabled.
RegInsert(c) ==
    LET id == caller[c].id
        cfg == caller[c].cfg
    IN
    /\ caller[c].pc = "reg"
    /\ CanWriteJobs(CallerProc(c))
    /\ jobs' = [jobs EXCEPT ![id] = NewJob(cfg, cfg.enabled)]
    /\ streak' = StreakAfterInsert(id)
    /\ task' = TaskAfterInsert(id)
    /\ jobsLock' = JobsReleased(CallerProc(c))
    /\ IF cfg.enabled THEN Goto(c, "st1") ELSE Return(c, "ok")
    /\ UNCHANGED <<timers, store, timersLock, detached, nspawn, ops, other>>

\* --- Scheduler::start_timer
\* First block, under timers.write(): remove and abort the old handle; then
\* tokio::spawn of the timer loop (no await between the two).
StAbortSpawn(c) ==
    LET id == caller[c].id
        old == timers[id]
        t == nspawn + 1
    IN
    /\ caller[c].pc = "st1"
    /\ CanWriteTimers(CallerProc(c))
    /\ t \in Tasks
    /\ timers' = [timers EXCEPT ![id] = 0]
    /\ timersLock' = TimersReleased(CallerProc(c))
    /\ task' = [TaskAfterAbort(old) EXCEPT ![t] = [FreeTask EXCEPT !.id = id, !.pc = "init"]]
    /\ detached' = DetachedAfterAbort(old)
    /\ nspawn' = t
    /\ caller' = [caller EXCEPT ![c].pc = "st2", ![c].h = t, ![c].tk = TRUE]
    /\ UNCHANGED <<jobs, store, jobsLock, ops, streak, other>>

\* Last block, under timers.write(): timers.insert(job_id, handle); a handle it
\* replaces is dropped, which detaches the task.
StInsert(c) ==
    /\ caller[c].pc = "st2"
    /\ CanWriteTimers(CallerProc(c))
    /\ timers' = [timers EXCEPT ![caller[c].id] = caller[c].h]
    /\ timersLock' = TimersReleased(CallerProc(c))
    /\ Return(c, "ok")
    /\ UNCHANGED <<jobs, store, task, jobsLock, detached, nspawn, ops, streak, other>>

\* --- Scheduler::set_enabled
SetEnabledCall(c) ==
    \E id \in Ids, en \in BOOLEAN :
        /\ en => SpawnsLeft > 0
        /\ Begin(c, "set_enabled", "se", id, NoConfig, en)
        /\ UNCHANGED <<jobs, timers, store, task, jobsLock, timersLock, detached, nspawn, streak, other>>

\* jobs.read(): in_memory = jobs.contains_key(job_id); the early return of a
\* disable of a job that is not in memory.
SeCheck(c) ==
    LET id == caller[c].id IN
    /\ caller[c].pc = "se"
    /\ CanReadJobs(CallerProc(c))
    /\ jobsLock' = JobsReleased(CallerProc(c))
    /\ IF jobs[id].present THEN Goto(c, "se_w")
       ELSE IF ~caller[c].en THEN Return(c, "ok")
       ELSE Goto(c, "se_load")
    /\ UNCHANGED <<jobs, timers, store, task, timersLock, detached, nspawn, ops, streak, other>>

\* Cold re-enable: store.load_all_unfiltered().await, find, normalize.
SeLoad(c) ==
    LET row == store[caller[c].id] IN
    /\ caller[c].pc = "se_load"
    /\ IF ~row.present \/ normalize_delivery_target(row.tgt) = NoTarget
       THEN Return(c, "err")
       ELSE caller' = [caller EXCEPT ![c].pc = "se_cold",
                          ![c].cfg = [enabled |-> row.enabled, run_once |-> row.run_once,
                                      tgt |-> row.tgt]]
    /\ UNCHANGED <<jobs, timers, store, task, jobsLock, timersLock, detached, nspawn, ops, streak, other>>

\* Cold re-enable, under jobs.write(): jobs.insert with enabled: true.
SeColdInsert(c) ==
    /\ caller[c].pc = "se_cold"
    /\ CanWriteJobs(CallerProc(c))
    /\ jobs' = [jobs EXCEPT ![caller[c].id] = NewJob(caller[c].cfg, TRUE)]
    /\ streak' = StreakAfterInsert(caller[c].id)
    /\ task' = TaskAfterInsert(caller[c].id)
    /\ jobsLock' = JobsReleased(CallerProc(c))
    /\ Goto(c, "st1")
    /\ UNCHANGED <<timers, store, timersLock, detached, nspawn, ops, other>>

\* Normal path, under jobs.write(): was_enabled = job.enabled; job.enabled = enabled.
SeFlip(c) ==
    LET id == caller[c].id
        en == caller[c].en
        was_enabled == jobs[id].enabled
    IN
    /\ caller[c].pc = "se_w"
    /\ CanWriteJobs(CallerProc(c))
    /\ jobsLock' = JobsReleased(CallerProc(c))
    /\ IF ~jobs[id].present
       THEN /\ Return(c, "err")
            /\ UNCHANGED jobs
       ELSE /\ jobs' = [jobs EXCEPT ![id].enabled = en]
            /\ IF en /\ ~was_enabled THEN Goto(c, "st1")
               ELSE IF ~en /\ was_enabled THEN Goto(c, "se_t")
               ELSE Return(c, "ok")
    /\ UNCHANGED <<timers, store, task, timersLock, detached, nspawn, ops, streak, other>>

\* Disabling, under timers.write(): timers.remove(job_id); then handle.abort().
SeRemove(c) ==
    LET id == caller[c].id
        h == timers[id]
    IN
    /\ caller[c].pc = "se_t"
    /\ CanWriteTimers(CallerProc(c))
    /\ timers' = [timers EXCEPT ![id] = 0]
    /\ timersLock' = TimersReleased(CallerProc(c))
    /\ task' = TaskAfterAbort(h)
    /\ detached' = DetachedAfterAbort(h)
    /\ Return(c, "ok")
    /\ UNCHANGED <<jobs, store, jobsLock, nspawn, ops, streak, other>>

\* --- Scheduler::unregister (CronTool::delete calls it first)
UnregisterCall(c) ==
    \E id \in Ids, op \in {"unregister", "delete"} :
        /\ Begin(c, op, "un_t", id, NoConfig, FALSE)
        /\ UNCHANGED <<jobs, timers, store, task, jobsLock, timersLock, detached, nspawn, streak, other>>

\* An unregister that keeps the timers guard while it goes on to jobs.write().
UnRemoveKeepsGuard(c) ==
    LET id == caller[c].id
        h == timers[id]
    IN
    /\ caller[c].pc = "un_t"
    /\ CanWriteTimers(CallerProc(c))
    /\ timers' = [timers EXCEPT ![id] = 0]
    /\ timersLock' = CallerProc(c)
    /\ task' = TaskAfterAbort(h)
    /\ detached' = DetachedAfterAbort(h)
    /\ caller' = [caller EXCEPT ![c].pc = "un_j", ![c].tk = TRUE]
    /\ UNCHANGED <<jobs, store, jobsLock, nspawn, ops, streak, other>>

\* Under timers.write(): timers.remove(job_id); then handle.abort() and
\* handle.await.
UnRemove(c) ==
    LET id == caller[c].id
        h == timers[id]
    IN
    /\ caller[c].pc = "un_t"
    /\ CanWriteTimers(CallerProc(c))
    /\ timers' = [timers EXCEPT ![id] = 0]
    /\ timersLock' = TimersReleased(CallerProc(c))
    /\ task' = TaskAfterAbort(h)
    /\ detached' = DetachedAfterAbort(h)
    /\ caller' = [caller EXCEPT ![c].pc = "un_j", ![c].tk = TRUE]
    /\ UNCHANGED <<jobs, store, jobsLock, nspawn, ops, streak, other>>

\* Under jobs.write(): jobs.remove(job_id).
UnJobs(c) ==
    /\ caller[c].pc = "un_j"
    /\ CanWriteJobs(CallerProc(c))
    /\ jobs' = [jobs EXCEPT ![caller[c].id] = NoJob]
    /\ jobsLock' = JobsReleased(CallerProc(c))
    /\ IF caller[c].op = "delete" THEN Goto(c, "del_store") ELSE Return(c, "ok")
    /\ UNCHANGED <<timers, store, task, timersLock, detached, nspawn, ops, streak, other>>

\* CronTool::delete: self.store.delete(&id).await
DelStore(c) ==
    /\ caller[c].pc = "del_store"
    /\ store' = [store EXCEPT ![caller[c].id] = NoRow]
    /\ Return(c, "ok")
    /\ UNCHANGED <<jobs, timers, task, jobsLock, timersLock, detached, nspawn, ops, streak, other>>

\* --- Scheduler::shutdown
ShutdownCall(c) ==
    /\ Begin(c, "shutdown", "sh", "", NoConfig, FALSE)
    /\ UNCHANGED <<jobs, timers, store, task, jobsLock, timersLock, detached, nspawn, streak, other>>

\* Under timers.write(): timers.drain().collect()
ShDrain(c) ==
    LET hs == {timers[i] : i \in Ids} \ {0} IN
    /\ caller[c].pc = "sh"
    /\ CanWriteTimers(CallerProc(c))
    /\ timers' = [i \in Ids |-> 0]
    /\ timersLock' = TimersReleased(CallerProc(c))
    /\ IF hs = {} THEN Return(c, "ok")
       ELSE caller' = [caller EXCEPT ![c].pc = "sh_abort", ![c].hs = hs, ![c].tk = TRUE]
    /\ UNCHANGED <<jobs, store, task, jobsLock, detached, nspawn, ops, streak, other>>

\* for (id, handle) in handles: handle.abort(); handle.await
ShAbort(c) ==
    /\ caller[c].pc = "sh_abort"
    /\ \E h \in caller[c].hs :
          /\ task' = TaskAfterAbort(h)
          /\ detached' = DetachedAfterAbort(h)
          /\ IF caller[c].hs = {h} THEN Return(c, "ok")
             ELSE caller' = [caller EXCEPT ![c].hs = @ \ {h}]
    /\ UNCHANGED <<jobs, timers, store, jobsLock, timersLock, nspawn, ops, streak, other>>

\* --- Scheduler::trigger_now
TriggerNowCall(c) ==
    \E id \in Ids :
        /\ Begin(c, "trigger_now", "tn", id, NoConfig, FALSE)
        /\ UNCHANGED <<jobs, timers, store, task, jobsLock, timersLock, detached, nspawn, streak, other>>

\* Under jobs.read(): jobs.get(job_id).cloned(); then the disabled check and
\* run_cron_job up to its first await (Channel::new, tokio::spawn).
TnRead(c) ==
    LET j == jobs[caller[c].id] IN
    /\ caller[c].pc = "tn"
    /\ CanReadJobs(CallerProc(c))
    /\ jobsLock' = JobsReleased(CallerProc(c))
    /\ IF ~j.present \/ ~j.enabled THEN Return(c, "err")
       ELSE caller' = [caller EXCEPT ![c].pc = "send", ![c].chan = TRUE]
    /\ UNCHANGED <<jobs, timers, store, task, timersLock, detached, nspawn, ops, streak, other>>

\* run_cron_job called by trigger_now: send, collection loop, delivery.
TnRun(c) ==
    /\ \/ /\ caller[c].pc = "send"
          /\ \/ Goto(c, "collect")
             \/ Return(c, "err")
       \/ /\ caller[c].pc = "collect"
          /\ caller' = [caller EXCEPT ![c].pc = "deliver", ![c].chan = FALSE]
       \/ /\ caller[c].pc = "deliver"
          /\ \E r \in {"ok", "err"} : Return(c, r)
    /\ UNCHANGED <<jobs, timers, store, task, jobsLock, timersLock, detached, nspawn, ops, streak, other>>

\* --- CronTool::create
\* CronStore::save(&config): writes the row of config.id, new or not.
save(id, cfg) ==
    [store EXCEPT ![id] = [present |-> TRUE, enabled |-> cfg.enabled,
                           run_once |-> cfg.run_once, tgt |-> cfg.tgt]]

\* Argument validation; the config is built with enabled: true.
CreateCall(c) ==
    \E id \in Ids, cfg \in CronConfig :
        /\ cfg.enabled
        /\ IF IndexOfColon(cfg.tgt) = 0
           THEN Reject(c)
           ELSE /\ SpawnsLeft > 0
                /\ caller[c].op = "idle"
                /\ ops < MaxOps
                /\ ops' = ops + 1
                /\ caller' = [caller EXCEPT ![c] = [IdleCaller("none") EXCEPT
                                 !.op = "create", !.pc = "cr_save", !.id = id, !.cfg = cfg,
                                 !.dup = jobs[id].present \/ store[id].present]]
        /\ UNCHANGED <<jobs, timers, store, task, jobsLock, timersLock, detached, nspawn, streak, other>>

\* self.store.save(&config).await, then scheduler.register(config) up to its
\* first await: the target is normalized before anything else.
CrSave(c) ==
    /\ caller[c].pc = "cr_save"
    /\ store' = save(caller[c].id, caller[c].cfg)
    /\ IF normalize_delivery_target(caller[c].cfg.tgt) = NoTarget
       THEN Return(c, "err")
       ELSE Goto(c, "reg")
    /\ UNCHANGED <<jobs, timers, task, jobsLock, timersLock, detached, nspawn, ops, streak, other>>

\* ------------------------------------------------------------------ next
\* A caller starts an operation.
CallStep(c) ==
    \/ RegisterCall(c) \/ SetEnabledCall(c) \/ UnregisterCall(c)
    \/ TriggerNowCall(c) \/ ShutdownCall(c) \/ CreateCall(c)

\* The operation in progress goes on to its next suspension point or returns.
OpStep(c) ==
    \/ RegInsert(c) \/ StAbortSpawn(c) \/ StInsert(c)
    \/ SeCheck(c) \/ SeLoad(c) \/ SeColdInsert(c) \/ SeFlip(c) \/ SeRemove(c)
    \/ UnRemove(c) \/ UnJobs(c) \/ DelStore(c) \/ ShDrain(c) \/ ShAbort(c)
    \/ TnRead(c) \/ TnRun(c) \/ CrSave(c)

Next ==
    \/ \E c \in Callers : CallStep(c) \/ OpStep(c)
    \/ \E t \in Tasks : TimerStep(t)
    \/ \E id \in Ids : ChannelExit(id)

Spec == Init /\ [][Next]_vars

\* ------------------------------------------------------------------ collection loop
\* run_cron_job from `let timeout = ...` to `channel_handle.await`, with a clock.
TimeoutOptions == {None} \cup {Some(n) : n \in 1..MaxTimeoutSecs}

\* Strings are sequences of characters.  A response is a Text or a RichMessage,
\* which carry a text, or anything else (status update, stream chunk).
TextSamples == {<<>>, <<" ">>, <<"h", "i">>}

Responses ==
    [kind : {"Text", "RichMessage"}, text : TextSamples]
    \cup {[kind |-> "Status", text |-> <<>>]}

\* collected_text.join("\n\n")
BlankLine == <<"\n", "\n">>

RECURSIVE join(_, _)
join(texts, sep) ==
    IF texts = <<>> THEN <<>>
    ELSE IF Len(texts) = 1 THEN texts[1]
    ELSE texts[1] \o sep \o join(Tail(texts), sep)

\* str::trim removes leading and trailing white space: the trimmed string is
\* empty exactly when every character is white space.
TrimIsEmpty(str) == \A i \in 1..Len(str) : str[i] \in {" ", "\n"}

\* A has_result that tests the joined text without trimming it.
HasResultUntrimmed(result_text) == result_text # <<>>

\* let has_result = !result_text.trim().is_empty();
has_result(result_text) == ~TrimIsEmpty(result_text)

\* job.delivery_target of the job that runs
JobTarget == normalize_delivery_target(<<"discord", Colon, "1">>)

\* The prompt has been sent and channel_tx dropped; the loop is at its first
\* tokio::time::timeout(timeout, response_rx.recv()).
InitCollect ==
    /\ InitSched({NoRow})
    /\ hist = NoHistory
    /\ ty = NoTyping
    /\ ing = NoIngest
    /\ lk = NoLinks
    /\ wh = NoWebhook
    /\ tg = NoTelegram
    /\ th = NoThread
    /\ em = NoEmail
    /\ \E o \in TimeoutOptions :
          col = [NoCollect EXCEPT !.pc = "recv",
                                  !.timeout = unwrap_or(o, DEFAULT_TIMEOUT_SECS),
                                  !.chan = "running"]
    /\ tm = NoTicker
    /\ mem = NoMem
    /\ ad = NoAdapter

\* A second passes while recv() is pending; the Sleep of the pending
\* tokio::time::timeout completes no later than its deadline.
CollectTick ==
    /\ col.pc = "recv"
    /\ col.waited < col.timeout
    /\ col.elapsed < MaxClock
    /\ col' = [col EXCEPT !.elapsed = @ + 1, !.waited = @ + 1]
    /\ UNCHANGED exceptCol

\* Ok(Some(response)): text is pushed, anything else ignored; the loop calls
\* tokio::time::timeout again, with a new deadline.
CollectRecv ==
    /\ col.pc = "recv"
    /\ col.chan = "running"
    /\ col.emitted < MaxEmit
    /\ \E r \in Responses :
          col' = [col EXCEPT !.emitted = @ + 1,
                             !.texts = IF r.kind \in {"Text", "RichMessage"}
                                       THEN Append(@, r.text) ELSE @,
                             !.waited = 0]
    /\ UNCHANGED exceptCol

\* Ok(None): the channel has dropped response_tx; break.
CollectClosed ==
    /\ col.pc = "recv"
    /\ col.chan = "running"
    /\ col' = [col EXCEPT !.pc = "join", !.chan = "finished"]
    /\ UNCHANGED exceptCol

\* Err(Elapsed): channel_handle.abort(); break.
CollectTimeout ==
    /\ col.pc = "recv"
    /\ col.waited >= col.timeout
    /\ col' = [col EXCEPT !.pc = "join", !.chan = "aborted"]
    /\ UNCHANGED exceptCol

\* channel_handle.await returns.
CollectJoin ==
    /\ col.pc = "join"
    /\ col' = [col EXCEPT !.pc = "deliver"]
    /\ UNCHANGED exceptCol

\* Delivery: one broadcast of result_text to the job's delivery target when
\* there is a result; Err(error) when the broadcast fails, Ok(()) otherwise.
CollectDeliver ==
    LET result_text == join(col.texts, BlankLine) IN
    /\ col.pc = "deliver"
    /\ IF has_result(result_text)
       THEN \E ok \in BOOLEAN :
               col' = [col EXCEPT !.pc = "done",
                          !.sent = Append(@, [adapter |-> JobTarget.adapter,
                                              target |-> JobTarget.target,
                                              text |-> result_text]),
                          !.result = IF ok THEN "ok" ELSE "err"]
       ELSE col' = [col EXCEPT !.pc = "done", !.result = "ok"]
    /\ UNCHANGED exceptCol

NextCollect ==
    \/ CollectTick \/ CollectRecv \/ CollectClosed \/ CollectTimeout \/ CollectJoin
    \/ CollectDeliver

SpecCollect == InitCollect /\ [][NextCollect]_vars

\* ------------------------------------------------------------------ ticker
\* The spawned future of start_timer from the computation of first_tick to the
\* active-hours check, with the clock.  SystemTime::now() and Instant::now() are
\* read at the same moment; as_secs() drops the fraction of the second.
IntervalSamples == {2, 3, 4, 7, SECS_PER_DAY}

HourSamples == {0, 6, 22, 23}

\* Option<(u8, u8)>: <<>> is None
ActiveHoursSamples == {<<>>} \cup (HourSamples \X HourSamples)

Max(a, b) == IF a > b THEN a ELSE b

\* A first tick that is scheduled `remainder` seconds from now.
SecsUntilIsRemainder(now_unix, interval_secs) == now_unix % interval_secs

secs_until(now_unix, interval_secs) ==
    LET remainder == now_unix % interval_secs IN
    IF remainder = 0 THEN interval_secs ELSE interval_secs - remainder

first_tick(now, interval_secs) ==
    IF interval_secs < SECS_PER_DAY /\ SECS_PER_DAY % interval_secs = 0
    THEN now + Hz * secs_until(now \div Hz, interval_secs)
    ELSE now + Hz * interval_secs

in_window(current_hour, start, end) ==
    IF start <= end
    THEN current_hour >= start /\ current_hour < end
    ELSE current_hour >= start \/ current_hour < end

InitTicker ==
    /\ InitSched({NoRow})
    /\ hist = NoHistory
    /\ ty = NoTyping
    /\ ing = NoIngest
    /\ lk = NoLinks
    /\ wh = NoWebhook
    /\ tg = NoTelegram
    /\ th = NoThread
    /\ em = NoEmail
    /\ col = NoCollect
    /\ mem = NoMem
    /\ ad = NoAdapter
    /\ \E i \in IntervalSamples, ah \in ActiveHoursSamples, t \in 0..MaxStart :
          tm = [NoTicker EXCEPT !.pc = "start", !.interval_secs = i,
                                !.active_hours = ah, !.now = t, !.start = t]

\* first_tick and tokio::time::interval_at(first_tick, interval_secs)
TickerStart ==
    /\ tm.pc = "start"
    /\ tm' = [tm EXCEPT !.pc = "wait",
                        !.first = first_tick(tm.now, tm.interval_secs),
                        !.deadline = first_tick(tm.now, tm.interval_secs)]
    /\ UNCHANGED exceptTm

\* ticker.tick().await completes at the deadline, or at once when the deadline
\* has passed; with MissedTickBehavior::Skip the next deadline is then the next
\* one of the original cadence.  Then the active-hours check.
TickerTick ==
    LET period == Hz * tm.interval_secs
        fired == Max(tm.now, tm.deadline)
        ah == tm.active_hours
    IN
    /\ tm.pc = "wait"
    /\ tm.fires < MaxFires
    /\ \E h \in HourSamples :
          tm' = [tm EXCEPT !.pc = "work",
                     !.now = fired,
                     !.late = (tm.now > tm.deadline),
                     !.deadline = IF tm.now > tm.deadline
                                  THEN tm.now + period - ((tm.now - tm.deadline) % period)
                                  ELSE tm.deadline + period,
                     !.fires = @ + 1,
                     !.hour = h,
                     !.ran = IF ah = <<>> THEN TRUE ELSE in_window(h, ah[1], ah[2])]
    /\ UNCHANGED exceptTm

\* The rest of the loop body (nothing when the tick was skipped) takes time.
TickerWork ==
    /\ tm.pc = "work"
    /\ \E d \in 0..MaxWork : tm' = [tm EXCEPT !.pc = "wait", !.now = @ + d]
    /\ UNCHANGED exceptTm

NextTicker == TickerStart \/ TickerTick \/ TickerWork

SpecTicker == InitTicker /\ [][NextTicker]_vars

\* ------------------------------------------------------------ memory store
\* The rows of `memories` and of `associations` (src/src/memory/store.rs) and
\* hybrid_search over them (src/src/memory/search.rs).  A content and a query
\* are the lower-case words they are made of.  The ranks of the three source
\* lists alone decide a fused score, so the scores of the sources are left out.

Range(s) == {s[i] : i \in DOMAIN s}

Take(s, n) == SubSeq(s, 1, IF n < Len(s) THEN n ELSE Len(s))

RECURSIVE SeqOf(_)
SeqOf(S) ==
    IF S = {} THEN <<>>
    ELSE LET m == CHOOSE x \in S : \A y \in S : x <= y
         IN  <<m>> \o SeqOf(S \ {m})

Memory(content, importance, forgotten) ==
    [present |-> TRUE, content |-> content, memory_type |-> "fact",
     importance |-> importance, updated_at |-> 0, forgotten |-> forgotten]

Espresso == <<"alice", "espresso">>
Tea == <<"tea">>

\* the memories handed to save and to update
MemorySamples == {Memory(Espresso, 9, FALSE), Memory(Tea, 5, TRUE)}

CorpusSamples ==
    {<<Memory(Espresso, 9, FALSE), Memory(Tea, 5, FALSE),
       Memory(Tea, 5, FALSE), Memory(Tea, 5, FALSE)>>,
     <<Memory(Espresso, 9, FALSE), Memory(Tea, 9, FALSE),
       Memory(Tea, 5, TRUE), NoMemory>>}

\* the rows `associations` may hold, by rowid
AssocSamples ==
    <<[source_id |-> 1, target_id |-> 2, relation_type |-> "related_to"],
      [source_id |-> 3, target_id |-> 2, relation_type |-> "part_of"],
      [source_id |-> 3, target_id |-> 4, relation_type |-> "related_to"],
      [source_id |-> 1, target_id |-> 3, relation_type |-> "updates"]>>

GraphSamples == {{1, 2, 3}, {2, 4}}

QuerySamples == {<<"espresso">>, <<"green", "tea">>}
ResponseSamples ==
    {Unavailable} \cup {[ok |-> TRUE, ids |-> m] : m \in {<<2>>, <<3, 1>>}}

\* every 1 / (rrf_k + rank) is a whole number of 1/RrfScale up to rank 16
RrfScale == 16 * 9 * 5 * 7 * 11 * 13 * 17

\* SearchConfig; a min_score of a third drops a lone rank beyond the second
SearchConfig(max_results_per_source, min_score, max_graph_depth) ==
    [max_results_per_source |-> max_results_per_source, rrf_k |-> 1,
     min_score |-> min_score, max_graph_depth |-> max_graph_depth]

ConfigSamples ==
    {SearchConfig(2, 0, 2), SearchConfig(1, 0, 0),
     SearchConfig(2, RrfScale \div 3, 2)}

\* WHERE importance >= ? AND forgotten = 0 without the second condition
HighImportanceWithForgotten(memories, threshold, limit) ==
    Take(SeqOf({i \in MemIds : /\ memories[i].present
                               /\ memories[i].importance >= threshold}), limit)

\* ORDER BY importance DESC, updated_at DESC; equal rows in the order of the
\* table
ordered_before(memories, a, b) ==
    \/ memories[a].importance > memories[b].importance
    \/ /\ memories[a].importance = memories[b].importance
       /\ \/ memories[a].updated_at > memories[b].updated_at
          \/ /\ memories[a].updated_at = memories[b].updated_at
             /\ a < b

get_by_type(memories, memory_type, limit) ==
    Take(SortSeq(SeqOf({i \in MemIds : /\ memories[i].present
                                       /\ memories[i].memory_type = memory_type
                                       /\ ~memories[i].forgotten}),
                 LAMBDA a, b : ordered_before(memories, a, b)), limit)

get_high_importance(memories, threshold, limit) ==
    Take(SortSeq(SeqOf({i \in MemIds : /\ memories[i].present
                                       /\ memories[i].importance >= threshold
                                       /\ ~memories[i].forgotten}),
                 LAMBDA a, b : ordered_before(memories, a, b)), limit)

\* WHERE source_id = ? OR target_id = ?
get_associations(associations, memory_id) ==
    SelectSeq(SeqOf(associations),
              LAMBDA a : \/ AssocSamples[a].source_id = memory_id
                         \/ AssocSamples[a].target_id = memory_id)

\* the loop over the matches of text_search or vector_search
source_results(memories, response) ==
    IF response.ok
    THEN SelectSeq(response.ids, LAMBDA id : /\ memories[id].present
                                             /\ ~memories[id].forgotten)
    ELSE <<>>

\* the loop over the associations of current_id; st holds queue, visited and
\* results
RECURSIVE expand(_, _, _, _, _)
expand(memories, current_id, depth, todo, st) ==
    IF todo = <<>> THEN st
    ELSE LET assoc == AssocSamples[Head(todo)]
             related_id == IF assoc.source_id = current_id
                           THEN assoc.target_id ELSE assoc.source_id
             memory == memories[related_id]
             seen == [st EXCEPT !.visited = @ \cup {related_id}]
         IN  IF related_id \in st.visited
             THEN expand(memories, current_id, depth, Tail(todo), st)
             ELSE IF ~memory.present \/ memory.forgotten
             THEN expand(memories, current_id, depth, Tail(todo), seen)
             ELSE expand(memories, current_id, depth, Tail(todo),
                    [seen EXCEPT
                       !.results = Append(@, related_id),
                       !.queue = IF assoc.relation_type
                                     \in {"related_to", "part_of"}
                                 THEN Append(@, <<related_id, depth + 1>>)
                                 ELSE @])

RECURSIVE bfs(_, _, _, _)
bfs(memories, associations, max_depth, st) ==
    IF st.queue = <<>> THEN st.results
    ELSE LET current_id == Head(st.queue)[1]
             depth == Head(st.queue)[2]
             rest == [st EXCEPT !.queue = Tail(@)]
         IN  IF depth > max_depth
             THEN bfs(memories, associations, max_depth, rest)
             ELSE bfs(memories, associations, max_depth,
                      expand(memories, current_id, depth,
                             get_associations(associations, current_id), rest))

traverse_graph(memories, associations, start_id, max_depth, results) ==
    bfs(memories, associations, max_depth,
        [queue |-> <<<<start_id, 0>>>>, visited |-> {start_id},
         results |-> results])

\* query.to_lowercase().split_whitespace().any(|term| content contains term)
matches(query, content) == Range(query) \cap Range(content) # {}

matching_seeds(memories, query) ==
    SelectSeq(get_high_importance(memories, SEED_THRESHOLD, SEED_LIMIT),
              LAMBDA id : matches(query, memories[id].content))

RECURSIVE graph_pass(_, _, _, _, _)
graph_pass(memories, associations, seeds, max_depth, results) ==
    IF seeds = <<>> THEN results
    ELSE graph_pass(memories, associations, Tail(seeds), max_depth,
                    traverse_graph(memories, associations, Head(seeds),
                                   max_depth, Append(results, Head(seeds))))

RECURSIVE list_score(_, _, _, _)
list_score(list, id, k, rank) ==
    IF rank > Len(list) THEN 0
    ELSE (IF list[rank] = id THEN RrfScale \div (k + rank) ELSE 0)
         + list_score(list, id, k, rank + 1)

rrf_scores(vector_results, fts_results, graph_results, k) ==
    [id \in Range(vector_results) \cup Range(fts_results)
               \cup Range(graph_results) |->
        list_score(vector_results, id, k, 1) + list_score(fts_results, id, k, 1)
        + list_score(graph_results, id, k, 1)]

Orders(S) ==
    {p \in [1..Cardinality(S) -> S] :
        \A i, j \in 1..Cardinality(S) : i # j => p[i] # p[j]}

\* any order of the keys, with no regard for the scores
AnyOrders(scores) == Orders(DOMAIN scores)

\* rrf_scores.into_iter() yields the entries of the HashMap in an order that
\* depends on the keys of its RandomState, which differ from one map to the
\* next; the stable sort_by keeps that order among equal scores
FusedOrders(scores) ==
    {p \in Orders(DOMAIN scores) :
        \A i, j \in DOMAIN p : i < j => scores[p[i]] >= scores[p[j]]}

\* the lists reciprocal_rank_fusion may return
reciprocal_rank_fusion(vector_results, fts_results, graph_results, k) ==
    LET scores == rrf_scores(vector_results, fts_results, graph_results, k)
    IN  {[i \in DOMAIN p |-> [id |-> p[i], score |-> scores[p[i]]]] :
            p \in FusedOrders(scores)}

\* enumerate, map, filter, take
ranked(fused, config) ==
    Take(SelectSeq([i \in DOMAIN fused |->
                       [id |-> fused[i].id, score |-> fused[i].score,
                        rank |-> i]],
                   LAMBDA r : r.score >= config.min_score),
         config.max_results_per_source)

\* a query, a configuration and what the index answers, no more than the
\* limit asked for
SearchArgs ==
    {a \in [query : QuerySamples, config : ConfigSamples,
            fts : ResponseSamples, vec : ResponseSamples] :
        /\ Len(a.fts.ids) <= a.config.max_results_per_source
        /\ Len(a.vec.ids) <= a.config.max_results_per_source}

\* A process opens a store that already holds memories.
InitMem ==
    /\ InitSched({NoRow})
    /\ hist = NoHistory
    /\ ty = NoTyping
    /\ ing = NoIngest
    /\ lk = NoLinks
    /\ wh = NoWebhook
    /\ tg = NoTelegram
    /\ th = NoThread
    /\ em = NoEmail
    /\ col = NoCollect
    /\ tm = NoTicker
    /\ ad = NoAdapter
    /\ \E c \in CorpusSamples, g \in GraphSamples :
          mem = [NoMem EXCEPT
                   !.memories = [i \in MemIds |->
                                    IF i <= Len(c) THEN c[i] ELSE NoMemory],
                   !.associations = g,
                   !.tomb = {i \in 1..Len(c) : c[i].forgotten}]

StoreOp(op, id, ret) ==
    [mem EXCEPT !.nops = @ + 1, !.dirty = TRUE,
                !.last = [op |-> op, id |-> id, ret |-> ret]]

\* MemoryStore::save: the INSERT fails on an id the table holds
MemSave(id, memory) ==
    /\ mem.nops + mem.calls < MaxMemSteps
    /\ ~mem.memories[id].present
    /\ mem' = [StoreOp("save", id, TRUE) EXCEPT
                 !.memories[id] = [memory EXCEPT !.updated_at = mem.nops + 1],
                 !.tomb = IF memory.forgotten THEN @ \cup {id} ELSE @]
    /\ UNCHANGED exceptMem

\* MemoryStore::update: every column but id and created_at is overwritten
MemUpdate(id, memory) ==
    /\ mem.nops + mem.calls < MaxMemSteps
    /\ mem' = [StoreOp("update", id, TRUE) EXCEPT
                 !.memories[id] =
                     IF @.present
                     THEN [memory EXCEPT !.updated_at = mem.nops + 1] ELSE @,
                 !.tomb = IF mem.memories[id].present /\ memory.forgotten
                          THEN @ \cup {id} ELSE @]
    /\ UNCHANGED exceptMem

MemDelete(id) ==
    /\ mem.nops + mem.calls < MaxMemSteps
    /\ mem' = [StoreOp("delete", id, TRUE) EXCEPT
                 !.memories[id] = NoMemory, !.tomb = @ \ {id}]
    /\ UNCHANGED exceptMem

\* WHERE id = ? AND forgotten = 0 without the second condition
ForgetMatchesAnyRow(row) == row.present

\* WHERE id = ? AND forgotten = 0
forget_matches(row) == row.present /\ ~row.forgotten

\* MemoryStore::forget: rows_affected() > 0
MemForget(id) ==
    /\ mem.nops + mem.calls < MaxMemSteps
    /\ LET hit == forget_matches(mem.memories[id])
       IN  mem' = [StoreOp("forget", id, hit) EXCEPT
                     !.memories[id] =
                         IF hit
                         THEN [@ EXCEPT !.forgotten = TRUE,
                                        !.updated_at = mem.nops + 1]
                         ELSE @,
                     !.tomb = IF hit THEN @ \cup {id} ELSE @]
    /\ UNCHANGED exceptMem

\* MemoryStore::create_association: an upsert on (source, target, relation)
MemCreateAssociation(a) ==
    /\ mem.nops + mem.calls < MaxMemSteps
    /\ mem' = [StoreOp("create_association", a, TRUE) EXCEPT
                 !.associations = @ \cup {a}]
    /\ UNCHANGED exceptMem

\* MemorySearch::hybrid_search
MemSearch(args) ==
    /\ mem.nops + mem.calls < MaxMemSteps
    /\ LET fts_results == source_results(mem.memories, args.fts)
           vector_results == source_results(mem.memories, args.vec)
           graph_results ==
               graph_pass(mem.memories, mem.associations,
                          matching_seeds(mem.memories, args.query),
                          args.config.max_graph_depth, <<>>)
       IN  \E fused \in reciprocal_rank_fusion(vector_results, fts_results,
                                               graph_results,
                                               args.config.rrf_k) :
              mem' = [mem EXCEPT !.calls = @ + 1, !.args = args,
                                 !.graph = graph_results,
                                 !.results = ranked(fused, args.config),
                                 !.dirty = FALSE]
    /\ UNCHANGED exceptMem

NextMem ==
    \/ \E id \in MemIds, m \in MemorySamples : MemSave(id, m)
    \/ \E id \in MemIds, m \in MemorySamples : MemUpdate(id, m)
    \/ \E id \in MemIds : MemDelete(id)
    \/ \E id \in MemIds : MemForget(id)
    \/ \E a \in DOMAIN AssocSamples : MemCreateAssociation(a)
    \/ \E args \in SearchArgs : MemSearch(args)

SpecMem == InitMem /\ [][NextMem]_vars

\* ------------------------------------------------------------ adapters
\* start(), the ingest loop it spawns and shutdown() of the Twitch, Telegram
\* and email adapters (src/src/messaging).  One caller calls shutdown(), each
\* call after the one before it has returned.

AdapterKinds == {"twitch", "telegram", "email", "webhook"}

InitAdapter ==
    /\ InitSched({NoRow})
    /\ hist = NoHistory
    /\ ty = NoTyping
    /\ ing = NoIngest
    /\ lk = NoLinks
    /\ wh = NoWebhook
    /\ tg = NoTelegram
    /\ th = NoThread
    /\ em = NoEmail
    /\ col = NoCollect
    /\ tm = NoTicker
    /\ mem = NoMem
    /\ \E k \in AdapterKinds : ad = [NoAdapter EXCEPT !.kind = k]

\* start(): the channels are made, the sender kept and the loop spawned; the
\* email adapter refuses a second start.  The manager starts an adapter when
\* it registers it and shuts it down when it removes it: no start follows a
\* shutdown.
AdapterStart ==
    /\ ad.ingest = "off"
    /\ ad.returned = 0
    /\ ad.call = "idle"
    /\ ad.kind = "email" => ~ad.poll_task
    /\ ad' = [ad EXCEPT !.shutdown_tx = TRUE, !.ingest = "select",
                        !.client = (ad.kind = "twitch"),
                        !.inbound_tx = (ad.kind = "webhook"),
                        !.poll_task = (ad.kind = "email")]
    /\ UNCHANGED exceptAd

\* TelegramAdapter::send_status: a typing indicator task is spawned and kept
TelegramTyping ==
    /\ ad.kind = "telegram"
    /\ ~ad.typing
    /\ ad' = [ad EXCEPT !.typing = TRUE]
    /\ UNCHANGED exceptAd

\* the loop takes the shutdown branch of its select! and ends, which drops
\* shutdown_rx; the email loop also sees the flag at the top of its loop
IngestShutdown ==
    /\ ad.ingest = "select"
    /\ ad.signal > 0
    /\ ad' = [ad EXCEPT !.ingest = "gone"]
    /\ UNCHANGED exceptAd

\* the loop takes the other branch and has a message to forward (select!
\* picks among the branches that are ready at random); the email loop polls
\* only if the flag is not set
IngestMessage ==
    /\ ad.kind # "webhook"
    /\ ad.ingest = "select"
    /\ ad.kind = "email" => ad.signal = 0
    /\ ad' = [ad EXCEPT !.ingest = "send",
                        !.after = IF ad.signal > 0 /\ @ < MaxAfter
                                  THEN @ + 1 ELSE @]
    /\ UNCHANGED exceptAd

\* the loop goes on after a send that failed
SendFailedContinues(a) == [a EXCEPT !.ingest = "select"]

\* Err from inbound_tx.send: a warning is logged and the task returns
send_failed(a) == [a EXCEPT !.ingest = "gone"]

\* inbound_tx.send(message).await: waits for room, fails once the receiver is
\* dropped, and then the loop returns
IngestSend ==
    /\ ad.ingest = "send"
    /\ \/ /\ ad.consumer
          /\ ad.inbound < InboundCapacity
          /\ ad' = [ad EXCEPT !.inbound = @ + 1, !.ingest = "select"]
       \/ /\ ~ad.consumer
          /\ ad' = send_failed(ad)
    /\ UNCHANGED exceptAd

\* handle_send of the webhook server: the request is forwarded through the
\* sender the adapter keeps; 500 once the receiver is dropped
WebhookSend ==
    /\ ad.kind = "webhook"
    /\ ad.ingest = "select"
    /\ ad.inbound_tx
    /\ ad.consumer => ad.inbound < InboundCapacity
    /\ ad' = [ad EXCEPT !.inbound = IF ad.consumer THEN @ + 1 ELSE @]
    /\ UNCHANGED exceptAd

\* the Twitch connection closes: incoming.recv() yields None
IngestEnded ==
    /\ ad.kind = "twitch"
    /\ ad.ingest = "select"
    /\ ad' = [ad EXCEPT !.ingest = "gone"]
    /\ UNCHANGED exceptAd

\* whoever holds the inbound stream takes a message from it, or drops it
ConsumerRecv ==
    /\ ad.consumer
    /\ ad.inbound > 0
    /\ ad' = [ad EXCEPT !.inbound = @ - 1]
    /\ UNCHANGED exceptAd

ConsumerDrop ==
    /\ ad.consumer
    /\ ad.ingest # "off"
    /\ ad' = [ad EXCEPT !.consumer = FALSE]
    /\ UNCHANGED exceptAd

\* what shutdown() leaves of the adapter's own fields
Fields(a) == <<a.shutdown_tx, a.client, a.poll_task, a.typing>>

\* the call returns
ShutdownDone(a) ==
    [a EXCEPT !.call = "idle", !.returned = @ + 1,
              !.left = Append(@, Fields(a))]

\* tx.send(()).await of the Twitch and Telegram adapters completes at once
\* when the receiver is gone (Err) or the channel has room
SendReady == ad.ingest = "gone" \/ ad.signal < SHUTDOWN_CAPACITY

AfterSend(a) ==
    [a EXCEPT !.signal = IF ad.ingest = "gone" THEN @ ELSE @ + 1,
              !.client = FALSE]

\* shutdown() up to its return or to the first await that has to wait
AdapterShutdown ==
    /\ ad.call = "idle"
    /\ ad.returned < MaxShutdowns
    /\ \/ /\ ad.kind \in {"twitch", "telegram", "webhook"}
          /\ LET drained == [ad EXCEPT !.typing = FALSE]
             IN  IF ~ad.shutdown_tx
                 THEN ad' = ShutdownDone([drained EXCEPT !.client = FALSE])
                 ELSE IF SendReady
                 THEN ad' = ShutdownDone(AfterSend(drained))
                 ELSE ad' = [drained EXCEPT !.call = "send"]
       \/ /\ ad.kind = "email"
          /\ LET sent == [ad EXCEPT !.shutdown_tx = FALSE,
                                    !.signal = IF ad.shutdown_tx /\ ad.ingest # "gone"
                                               THEN 1 ELSE @,
                                    !.poll_task = FALSE]
             IN  IF ad.poll_task /\ ad.ingest # "gone"
                 THEN ad' = [sent EXCEPT !.call = "join"]
                 ELSE ad' = ShutdownDone(sent)
    /\ UNCHANGED exceptAd

\* the pending send, or the join of the poll task, completes
AdapterShutdownResume ==
    /\ \/ /\ ad.call = "send"
          /\ SendReady
          /\ ad' = ShutdownDone(AfterSend(ad))
       \/ /\ ad.call = "join"
          /\ ad.ingest = "gone"
          /\ ad' = ShutdownDone(ad)
    /\ UNCHANGED exceptAd

NextAdapter ==
    \/ AdapterStart
    \/ TelegramTyping
    \/ IngestShutdown
    \/ IngestMessage
    \/ IngestSend
    \/ WebhookSend
    \/ IngestEnded
    \/ ConsumerRecv
    \/ ConsumerDrop
    \/ AdapterShutdown
    \/ AdapterShutdownResume

SpecAdapter == InitAdapter /\ [][NextAdapter]_vars

\* ------------------------------------------------------------ email polling
\* poll_inbox_once and the loop of EmailAdapter::start that calls it
\* (src/src/messaging/email.rs).  At most one thing goes wrong in a poll.

EmailFolders == 1..2
MailKinds == {"accepted", "filtered", "broken"}

Faults ==
    {NoFault, <<"connect", 0>>}
    \cup {<<k, f>> : k \in {"select", "search"}, f \in EmailFolders}
    \cup {<<k, u>> : k \in {"fetch_err", "empty", "no_body", "store_err"},
                     u \in MailIds}

\* the body of `for uid in message_uids`; acc holds the flags of the server,
\* inbound_messages and the UIDs left for a retry
poll_uid(mail, implicit, fault, uid, acc) ==
    IF fault = <<"fetch_err", uid>>
    THEN [acc EXCEPT !.failed = @ \cup {uid}]
    ELSE IF fault = <<"empty", uid>> THEN acc
    ELSE IF fault = <<"no_body", uid>>
    THEN [acc EXCEPT !.failed = @ \cup {uid}]
    ELSE LET \* uid_fetch(uid, "(UID RFC822)") has delivered the body
             fetched == [acc EXCEPT !.seen = IF implicit THEN @ \cup {uid}
                                             ELSE @]
             kind == mail[uid].kind
             pushed == IF kind = "accepted"
                       THEN [fetched EXCEPT !.messages = Append(@, uid)]
                       ELSE fetched
         IN  IF kind = "broken"
             THEN [fetched EXCEPT !.failed = @ \cup {uid}]
             ELSE IF fault = <<"store_err", uid>> THEN pushed
             ELSE [pushed EXCEPT !.seen = @ \cup {uid}]

RECURSIVE poll_uids(_, _, _, _, _)
poll_uids(mail, implicit, fault, uids, acc) ==
    IF uids = <<>> THEN acc
    ELSE poll_uids(mail, implicit, fault, Tail(uids),
                   poll_uid(mail, implicit, fault, Head(uids), acc))

\* uid_search("UNSEEN") in the selected folder
unseen(mail, seen, folder) ==
    SeqOf({u \in MailIds : mail[u].folder = folder /\ u \notin seen})

\* the loop over config.folders; `?` on a failed search leaves the function
RECURSIVE poll_folders(_, _, _, _, _)
poll_folders(mail, implicit, fault, folder, acc) ==
    IF folder \notin EmailFolders THEN acc
    ELSE IF fault = <<"select", folder>>
    THEN poll_folders(mail, implicit, fault, folder + 1, acc)
    ELSE IF fault = <<"search", folder>>
    THEN [acc EXCEPT !.ok = FALSE]
    ELSE poll_folders(mail, implicit, fault, folder + 1,
                      poll_uids(mail, implicit, fault,
                                unseen(mail, acc.seen, folder), acc))

poll_inbox_once(mail, implicit, seen, fault) ==
    LET start == [ok |-> TRUE, seen |-> seen, messages |-> <<>>,
                  failed |-> {}]
    IN  IF fault = <<"connect", 0>> THEN [start EXCEPT !.ok = FALSE]
        ELSE poll_folders(mail, implicit, fault, 1, start)

\* retry_backoff * 2 with no ceiling
BackoffDoubled(retry_backoff) == retry_backoff * 2

\* (retry_backoff * 2).min(Duration::from_secs(EMAIL_MAX_RETRY_BACKOFF_SECS))
next_backoff(retry_backoff) ==
    Min(retry_backoff * 2, EMAIL_MAX_RETRY_BACKOFF_SECS)

\* start() has spawned the loop; the inbox holds unread mail
InitEmail ==
    /\ InitSched({NoRow})
    /\ hist = NoHistory
    /\ ty = NoTyping
    /\ ing = NoIngest
    /\ lk = NoLinks
    /\ wh = NoWebhook
    /\ tg = NoTelegram
    /\ th = NoThread
    /\ col = NoCollect
    /\ tm = NoTicker
    /\ mem = NoMem
    /\ ad = NoAdapter
    /\ \E m \in [MailIds -> [folder : EmailFolders, kind : MailKinds]],
          i \in BOOLEAN :
          em = [NoEmail EXCEPT !.mail = m, !.implicit = i, !.pc = "poll",
                               !.retry_backoff = INITIAL_RETRY_BACKOFF_SECS]

\* spawn_blocking(poll_inbox_once) and the match on its result
EmailPoll(fault) ==
    /\ em.pc = "poll"
    /\ em.polls < MaxPolls
    /\ LET r == poll_inbox_once(em.mail, em.implicit, em.seen, fault)
           polled == [em EXCEPT !.polls = @ + 1, !.fault = fault,
                                !.seen = r.seen, !.failed = r.failed]
       IN  IF r.ok
           THEN em' = [polled EXCEPT
                         !.retry_backoff = INITIAL_RETRY_BACKOFF_SECS,
                         !.fails = 0,
                         !.pending = r.messages,
                         !.pc = IF r.messages = <<>> THEN "sleep" ELSE "send",
                         !.delay = poll_interval]
           ELSE em' = [polled EXCEPT
                         !.retry_backoff = next_backoff(em.retry_backoff),
                         !.fails = @ + 1,
                         !.pc = "sleep",
                         !.delay = em.retry_backoff]
    /\ UNCHANGED exceptEmail

\* inbound_tx.send(message) for the next message of the poll
EmailForward ==
    /\ em.pc = "send"
    /\ em' = [em EXCEPT !.emitted[Head(em.pending)] = Min(@ + 1, 2),
                        !.pending = Tail(@),
                        !.pc = IF Len(em.pending) = 1 THEN "sleep" ELSE @]
    /\ UNCHANGED exceptEmail

\* the sleep of the select! is over
EmailWake ==
    /\ em.pc = "sleep"
    /\ em' = [em EXCEPT !.pc = "poll"]
    /\ UNCHANGED exceptEmail

NextEmail ==
    \/ \E fault \in Faults : EmailPoll(fault)
    \/ EmailForward
    \/ EmailWake

SpecEmail == InitEmail /\ [][NextEmail]_vars

\* ------------------------------------------------------------------ email threads
\* A header value is a sequence of tokens.  A token <text> is bracketed; the other
\* token is text that does not open with '<', such as the comma some mailers put
\* between message ids.
Angle(text) == [bracketed |-> TRUE, text |-> text]
Comma == [bracketed |-> FALSE, text |-> ","]
RawIds == {"root@x", " root@x ", "child@x", ""}
Tokens == {Angle(t) : t \in RawIds} \cup {Comma}

\* Option<String>: a header that the mail does not carry is absent
Absent == [some |-> FALSE, v |-> <<>>]
Header(v) == [some |-> TRUE, v |-> v]

\* str::trim on the ids of the model
trim(text) == IF text = " root@x " THEN "root@x" ELSE text

\* trim, strip the brackets, trim: the brackets of a token are gone already
normalize_message_id(text) == trim(text)

\* mailparse::msgidparse: every id opens with '<' and ends at the next '>';
\* anything else fails the whole header.
msgidparse(value) ==
    IF \E i \in DOMAIN value : ~value[i].bracketed
    THEN [ok |-> FALSE, ids |-> <<>>]
    ELSE [ok |-> TRUE, ids |-> [i \in DOMAIN value |-> value[i].text]]

non_empty(ids) == SelectSeq(ids, LAMBDA id : id # "")

\* msgidparse(value).map(normalize, filter non-empty).unwrap_or_default()
extract_message_ids(value) ==
    LET parsed == msgidparse(value)
    IN  IF parsed.ok
        THEN non_empty([i \in DOMAIN parsed.ids |-> normalize_message_id(parsed.ids[i])])
        ELSE <<>>

\* the first 24 hex digits of the SHA-256 of the seed
sha256_24(seed) == "sha256/24(" \o seed \o ")"

derive_thread_key(references, in_reply_to, message_id, subject, sender_email) ==
    LET seed == IF references # <<>> THEN references[1]
                ELSE IF in_reply_to.some THEN normalize_message_id(in_reply_to.v)
                ELSE IF message_id.some THEN normalize_message_id(message_id.v)
                ELSE subject \o ":" \o sender_email
    IN  sha256_24(seed)

account_key == "bot@x"

\* parse_inbound_email from the Message-ID header on, for a mail that passed the filters
parse_inbound_email(mail, uid) ==
    LET message_id == IF mail.message_id.some /\ normalize_message_id(mail.message_id.v) # ""
                      THEN normalize_message_id(mail.message_id.v)
                      ELSE "generated-" \o ToString(uid)
        reply_ids == IF mail.in_reply_to.some THEN extract_message_ids(mail.in_reply_to.v)
                     ELSE <<>>
        in_reply_to == IF reply_ids # <<>> THEN [some |-> TRUE, v |-> reply_ids[1]]
                       ELSE [some |-> FALSE, v |-> ""]
        references == IF mail.references.some THEN extract_message_ids(mail.references.v)
                      ELSE <<>>
        thread_key == derive_thread_key(references, in_reply_to,
                                        [some |-> TRUE, v |-> message_id],
                                        mail.subject, mail.sender_email)
    IN  [conversation_id |-> "email:" \o account_key \o ":" \o thread_key,
         message_id |-> message_id]

HeaderValues == {<<>>} \cup {<<a>> : a \in Tokens} \cup {<<a, b>> : a, b \in Tokens}
ReferencesHeaders == {Absent} \cup {Header(v) : v \in HeaderValues}
ReplyHeaders == {Absent, Header(<<Angle("child@x")>>)}
MessageIdHeaders == {[some |-> FALSE, v |-> ""], [some |-> TRUE, v |-> "reply@x"]}
Senders == {[subject |-> "hello", sender_email |-> "ann@x"],
            [subject |-> "re: hello", sender_email |-> "bob@x"]}
Mails == {[references |-> r, in_reply_to |-> i, message_id |-> m,
           subject |-> s.subject, sender_email |-> s.sender_email] :
          r \in ReferencesHeaders, i \in ReplyHeaders, m \in MessageIdHeaders, s \in Senders}

InitThread ==
    /\ InitSched({NoRow})
    /\ hist = NoHistory
    /\ ty = NoTyping
    /\ ing = NoIngest
    /\ lk = NoLinks
    /\ wh = NoWebhook
    /\ tg = NoTelegram
    /\ col = NoCollect
    /\ tm = NoTicker
    /\ mem = NoMem
    /\ ad = NoAdapter
    /\ em = NoEmail
    /\ th = NoThread

\* one mail of a poll reaches parse_inbound_email
EmailParse(mail) ==
    /\ Len(th.log) < MaxInbound
    /\ th' = [th EXCEPT !.log = Append(@, [mail |-> mail,
                  conversation_id |->
                      parse_inbound_email(mail, Len(th.log) + 1).conversation_id])]
    /\ UNCHANGED exceptThread

NextThread == \E mail \in Mails : EmailParse(mail)

SpecThread == InitThread /\ [][NextThread]_vars

\* ------------------------------------------------------------------ telegram streams
STREAM_EDIT_INTERVAL == Hz

InitTelegram ==
    /\ InitSched({NoRow})
    /\ hist = NoHistory
    /\ ty = NoTyping
    /\ ing = NoIngest
    /\ lk = NoLinks
    /\ wh = NoWebhook
    /\ col = NoCollect
    /\ tm = NoTicker
    /\ mem = NoMem
    /\ ad = NoAdapter
    /\ em = NoEmail
    /\ th = NoThread
    /\ tg = NoTelegram

\* Instant::now() moves on
TelegramTick ==
    /\ tg.now < MaxStreamClock
    /\ tg' = [tg EXCEPT !.now = @ + 1]
    /\ UNCHANGED exceptTelegram

\* What Telegram answers to an edit request: Ok, the CantParseEntities rejection of
\* HTML it cannot read, or any other error (flood control, a network error)
EditResults == {"ok", "cant_parse_entities", "error"}

\* the edit request of a StreamChunk, in HTML first and in plain text after that
EditRequest(conv, form) ==
    [conv |-> conv, message_id |-> tg.active[conv].message_id, at |-> tg.now,
     form |-> form, result |-> "pending"]

\* OutboundResponse::StreamStart: the placeholder is sent and the stream is entered
\* under the conversation, replacing the one before
StreamStart(conv) ==
    /\ tg.lock = NoLock
    /\ tg.sent < MaxPlaceholders
    /\ tg' = [tg EXCEPT !.sent = @ + 1,
                        !.active[conv] = [some |-> TRUE, message_id |-> tg.sent + 1,
                                          last_edit |-> tg.now]]
    /\ UNCHANGED exceptTelegram

\* OutboundResponse::StreamChunk up to the first send().await: nothing without a
\* stream, nothing within STREAM_EDIT_INTERVAL of last_edit, else the HTML edit
StreamChunk(conv) ==
    /\ tg.lock = NoLock
    /\ tg.active[conv].some
    /\ ~(tg.now - tg.active[conv].last_edit < STREAM_EDIT_INTERVAL)
    /\ Len(tg.log) + 2 <= MaxEditRequests
    /\ tg.message[tg.active[conv].message_id].received < MaxStreamChunks
    /\ LET m == tg.active[conv].message_id
       IN  tg' = [tg EXCEPT !.log = Append(@, EditRequest(conv, "html")),
                            !.message[m].received = @ + 1,
                            !.lock = [conv |-> conv, form |-> "html",
                                      chunk |-> tg.message[m].received + 1]]
    /\ UNCHANGED exceptTelegram

\* OutboundResponse::StreamChunk within STREAM_EDIT_INTERVAL of last_edit:
\* return Ok(()), the text of the chunk goes nowhere
StreamChunkThrottled(conv) ==
    /\ tg.lock = NoLock
    /\ tg.active[conv].some
    /\ tg.now - tg.active[conv].last_edit < STREAM_EDIT_INTERVAL
    /\ tg.message[tg.active[conv].message_id].received < MaxStreamChunks
    /\ tg' = [tg EXCEPT !.message[tg.active[conv].message_id].received = @ + 1]
    /\ UNCHANGED exceptTelegram

\* the HTML edit came back: Ok ends the chunk, any Err sends the plain-text edit
StreamChunkHtml(result) ==
    /\ tg.lock.form = "html"
    /\ LET answered == [tg.log EXCEPT ![Len(tg.log)].result = result]
       IN  tg' = IF result = "ok"
                 THEN [tg EXCEPT !.log = answered,
                                 !.message[tg.active[tg.lock.conv].message_id].shown =
                                     tg.lock.chunk,
                                 !.active[tg.lock.conv].last_edit = tg.now, !.lock = NoLock]
                 ELSE [tg EXCEPT !.log = Append(answered, EditRequest(tg.lock.conv, "plain")),
                                 !.lock.form = "plain"]
    /\ UNCHANGED exceptTelegram

\* the plain-text edit came back, Ok or Err: last_edit = Instant::now()
StreamChunkPlain(result) ==
    /\ tg.lock.form = "plain"
    /\ tg' = [tg EXCEPT !.log[Len(tg.log)].result = result,
                        !.message[tg.active[tg.lock.conv].message_id].shown =
                            IF result = "ok" THEN tg.lock.chunk ELSE @,
                        !.active[tg.lock.conv].last_edit = tg.now, !.lock = NoLock]
    /\ UNCHANGED exceptTelegram

\* OutboundResponse::StreamEnd
StreamEnd(conv) ==
    /\ tg.lock = NoLock
    /\ tg.active[conv].some
    /\ tg' = [tg EXCEPT !.active[conv] = NoStream,
                        !.message[tg.active[conv].message_id].ended = TRUE]
    /\ UNCHANGED exceptTelegram

NextTelegram ==
    \/ TelegramTick
    \/ \E conv \in Conversations : StreamStart(conv)
    \/ \E conv \in Conversations : StreamChunk(conv)
    \/ \E conv \in Conversations : StreamChunkThrottled(conv)
    \/ \E result \in EditResults : StreamChunkHtml(result)
    \/ \E result \in {"ok", "error"} : StreamChunkPlain(result)
    \/ \E conv \in Conversations : StreamEnd(conv)

SpecTelegram == InitTelegram /\ [][NextTelegram]_vars

\* ------------------------------------------------------------------ webhook responses
\* OutboundResponse variants: Text, File, StreamChunk, Status
ResponseVariants == {"Text", "File", "StreamChunk", "Status"}

\* the match of respond(): the response_type of the WebhookResponse, or "" for
\* the variants on which respond() returns Ok(()) at once
response_type(variant) ==
    CASE variant = "Text" -> "text"
      [] variant = "File" -> "file"
      [] variant = "StreamChunk" -> "stream_chunk"
      [] OTHER -> ""

\* response_buffers.entry(conversation_id).or_default().push(webhook_response)
respond(buffers, conversation_id, response) ==
    IF response_type(response.variant) = "" THEN buffers
    ELSE [buffers EXCEPT ![conversation_id] =
              Append(@, [n |-> response.n, response_type |-> response_type(response.variant)])]

\* mutant: the poll reads the buffer and leaves it in the map
HandlePollKeepsBuffer(buffers, id) ==
    [messages |-> buffers[WebhookKey(id)], buffers |-> buffers]

\* response_buffers.remove("webhook:{conversation_id}").unwrap_or_default()
handle_poll(buffers, id) ==
    [messages |-> buffers[WebhookKey(id)],
     buffers |-> [buffers EXCEPT ![WebhookKey(id)] = <<>>]]

InitWebhook ==
    /\ InitSched({NoRow})
    /\ hist = NoHistory
    /\ ty = NoTyping
    /\ ing = NoIngest
    /\ lk = NoLinks
    /\ col = NoCollect
    /\ tm = NoTicker
    /\ mem = NoMem
    /\ ad = NoAdapter
    /\ em = NoEmail
    /\ th = NoThread
    /\ tg = NoTelegram
    /\ wh = NoWebhook

\* WebhookAdapter::respond for a message that came in through /send
WebhookRespond(id, variant) ==
    /\ wh.n < MaxResponses
    /\ LET response == [n |-> wh.n + 1, variant |-> variant]
           conversation_id == WebhookKey(id)
       IN  wh' = [wh EXCEPT !.n = @ + 1,
                            !.emitted[conversation_id] = Append(@, response),
                            !.buffers = respond(@, conversation_id, response)]
    /\ UNCHANGED exceptWebhook

\* GET /poll/{conversation_id}: 401 without the token, else the buffer of the key
WebhookPoll(id, authorized) ==
    /\ wh.polls < MaxPollCalls
    /\ LET polled == handle_poll(wh.buffers, id)
       IN  wh' = IF authorized
                 THEN [wh EXCEPT !.polls = @ + 1, !.buffers = polled.buffers,
                                 !.polled[WebhookKey(id)] = @ \o polled.messages]
                 ELSE [wh EXCEPT !.polls = @ + 1]
    /\ UNCHANGED exceptWebhook

NextWebhook ==
    \/ \E id \in WebhookIds, variant \in ResponseVariants : WebhookRespond(id, variant)
    \/ \E id \in WebhookIds, authorized \in BOOLEAN : WebhookPoll(id, authorized)

SpecWebhook == InitWebhook /\ [][NextWebhook]_vars

\* ------------------------------------------------------------------ agent links
\* the agents of agent_configs, and one id that is not among them
Agents == {"A", "B"}
AgentIds == Agents \cup {"C"}

\* StatusCode: 400, 404, 409, 500, 201 and 204; "" until the handler returns
StatusCodes == {"BAD_REQUEST", "NOT_FOUND", "CONFLICT", "INTERNAL_SERVER_ERROR", "CREATED",
                "NO_CONTENT"}

Edge(from, to) == [from_agent_id |-> from, to_agent_id |-> to]

\* existing.iter().any(|link| link.from_agent_id == from && link.to_agent_id == to)
duplicate(existing, from, to) ==
    \E i \in DOMAIN existing :
        existing[i].from_agent_id = from /\ existing[i].to_agent_id = to

InitLinks ==
    /\ InitSched({NoRow})
    /\ hist = NoHistory
    /\ ty = NoTyping
    /\ ing = NoIngest
    /\ col = NoCollect
    /\ tm = NoTicker
    /\ mem = NoMem
    /\ ad = NoAdapter
    /\ em = NoEmail
    /\ th = NoThread
    /\ tg = NoTelegram
    /\ wh = NoWebhook
    /\ lk = NoLinks

\* create_link up to its first await: the body is validated, the agents are
\* looked up, agent_links is loaded and searched for the pair
CreateLink(r, from, to, parses) ==
    /\ lk.req[r].pc = "new"
    /\ LET existing == lk.agent_links
           status == IF ~parses THEN "BAD_REQUEST"
                     ELSE IF from \notin Agents \/ to \notin Agents THEN "NOT_FOUND"
                     ELSE IF from = to THEN "BAD_REQUEST"
                     ELSE IF duplicate(existing, from, to) THEN "CONFLICT"
                     ELSE ""
       IN  lk' = [lk EXCEPT !.req[r] = [pc |-> IF status = "" THEN "read" ELSE "done",
                                        from |-> from, to |-> to,
                                        existing |-> IF status = "" THEN existing ELSE <<>>,
                                        doc |-> <<>>, status |-> status]]
    /\ UNCHANGED exceptLinks

\* tokio::fs::read_to_string(config_path) and the parse of the document
CreateLinkRead(r, ok) ==
    /\ lk.req[r].pc = "read"
    /\ lk' = IF ok
             THEN [lk EXCEPT !.req[r].pc = "write", !.req[r].doc = lk.config]
             ELSE [lk EXCEPT !.req[r].pc = "done", !.req[r].existing = <<>>,
                             !.req[r].status = "INTERNAL_SERVER_ERROR"]
    /\ UNCHANGED exceptLinks

\* the table is pushed onto the document, the document is written over
\* config.toml, and the snapshot with the new link becomes agent_links
CreateLinkWrite(r, ok) ==
    /\ lk.req[r].pc = "write"
    /\ LET new_link == Edge(lk.req[r].from, lk.req[r].to)
           done == [lk.req[r] EXCEPT !.pc = "done", !.existing = <<>>, !.doc = <<>>]
       IN  lk' = IF ok
                 THEN [lk EXCEPT !.config = Append(lk.req[r].doc, new_link),
                                 !.agent_links = Append(lk.req[r].existing, new_link),
                                 !.req[r] = [done EXCEPT !.status = "CREATED"]]
                 ELSE [lk EXCEPT !.req[r] = [done EXCEPT !.status = "INTERNAL_SERVER_ERROR"]]
    /\ UNCHANGED exceptLinks

\* the list without the links of the pair
without(links, from, to) == SelectSeq(links, LAMBDA link : link # Edge(from, to))

\* the [[links]] tables without the first table of the pair
remove_first(tables, from, to) ==
    IF \E i \in DOMAIN tables : tables[i] = Edge(from, to)
    THEN LET idx == CHOOSE i \in DOMAIN tables :
                       /\ tables[i] = Edge(from, to)
                       /\ \A j \in 1..(i - 1) : tables[j] # Edge(from, to)
         IN  SubSeq(tables, 1, idx - 1) \o SubSeq(tables, idx + 1, Len(tables))
    ELSE tables

\* delete_link up to its first await: agent_links is loaded and searched
DeleteLink(r, from, to) ==
    /\ lk.req[r].pc = "new"
    /\ LET existing == lk.agent_links
           had_link == duplicate(existing, from, to)
       IN  lk' = [lk EXCEPT !.req[r] = [pc |-> IF had_link THEN "del_read" ELSE "done",
                                        from |-> from, to |-> to,
                                        existing |-> IF had_link THEN existing ELSE <<>>,
                                        doc |-> <<>>,
                                        status |-> IF had_link THEN "" ELSE "NOT_FOUND"]]
    /\ UNCHANGED exceptLinks

\* tokio::fs::read_to_string(config_path) and the parse of the document
DeleteLinkRead(r, ok) ==
    /\ lk.req[r].pc = "del_read"
    /\ lk' = IF ok
             THEN [lk EXCEPT !.req[r].pc = "del_write", !.req[r].doc = lk.config]
             ELSE [lk EXCEPT !.req[r].pc = "done", !.req[r].existing = <<>>,
                             !.req[r].status = "INTERNAL_SERVER_ERROR"]
    /\ UNCHANGED exceptLinks

\* the table is removed from the document, the document is written over
\* config.toml, and the snapshot without the pair becomes agent_links
DeleteLinkWrite(r, ok) ==
    /\ lk.req[r].pc = "del_write"
    /\ LET from == lk.req[r].from
           to == lk.req[r].to
           done == [lk.req[r] EXCEPT !.pc = "done", !.existing = <<>>, !.doc = <<>>]
       IN  lk' = IF ok
                 THEN [lk EXCEPT !.config = remove_first(lk.req[r].doc, from, to),
                                 !.agent_links = without(lk.req[r].existing, from, to),
                                 !.req[r] = [done EXCEPT !.status = "NO_CONTENT"]]
                 ELSE [lk EXCEPT !.req[r] = [done EXCEPT !.status = "INTERNAL_SERVER_ERROR"]]
    /\ UNCHANGED exceptLinks

NextLinks ==
    \/ \E r \in LinkRequests, from, to \in AgentIds, parses \in BOOLEAN :
           CreateLink(r, from, to, parses)
    \/ \E r \in LinkRequests, ok \in BOOLEAN : CreateLinkRead(r, ok)
    \/ \E r \in LinkRequests, ok \in BOOLEAN : CreateLinkWrite(r, ok)
    \/ \E r \in LinkRequests, from, to \in AgentIds : DeleteLink(r, from, to)
    \/ \E r \in LinkRequests, ok \in BOOLEAN : DeleteLinkRead(r, ok)
    \/ \E r \in LinkRequests, ok \in BOOLEAN : DeleteLinkWrite(r, ok)

SpecLinks == InitLinks /\ [][NextLinks]_vars

\* ------------------------------------------------------------------ ingestion
InitIngest ==
    /\ InitSched({NoRow})
    /\ hist = NoHistory
    /\ ty = NoTyping
    /\ col = NoCollect
    /\ tm = NoTicker
    /\ mem = NoMem
    /\ ad = NoAdapter
    /\ em = NoEmail
    /\ th = NoThread
    /\ tg = NoTelegram
    /\ wh = NoWebhook
    /\ lk = NoLinks
    /\ ing = [NoIngest EXCEPT !.file = [f \in IngestFiles |->
                                           [NoIngestFile EXCEPT !.present = TRUE]],
                              !.pc = "scan"]

\* for file_path in files: process_file up to the chunk loop.  read: the file
\* could be read; total: the number of chunks of chunk_text, 0 for a file that
\* is empty after trim, which is removed at once.
ProcessFile(f, read, total) ==
    /\ ing.pc = "scan" /\ ing.at + 1 = f
    /\ ing' = IF ~read
              THEN [ing EXCEPT !.at = f, !.file[f].result = "Err"]
              ELSE IF total = 0
              THEN [ing EXCEPT !.at = f, !.file[f].present = FALSE, !.file[f].result = "Ok"]
              ELSE [ing EXCEPT !.at = f, !.file[f].total = total, !.chunk = 0,
                               !.pc = "chunks"]
    /\ UNCHANGED exceptIngest

\* one turn of the chunk loop: an Err of process_chunk is logged and the loop
\* goes on
ProcessChunk(ok) ==
    /\ ing.pc = "chunks" /\ ing.chunk < ing.file[ing.at].total
    /\ ing' = [ing EXCEPT !.chunk = @ + 1,
                          !.file[ing.at].failed = IF ok THEN @ ELSE @ \cup {ing.chunk + 1}]
    /\ UNCHANGED exceptIngest

\* after the loop: tokio::fs::remove_file(path)
RemoveFile(removed) ==
    /\ ing.pc = "chunks" /\ ing.chunk = ing.file[ing.at].total
    /\ ing' = [ing EXCEPT !.pc = "scan",
                          !.file[ing.at].present = ~removed,
                          !.file[ing.at].result = IF removed THEN "Ok" ELSE "Err"]
    /\ UNCHANGED exceptIngest

NextIngest ==
    \/ \E f \in IngestFiles, read \in BOOLEAN, total \in 0..MaxChunks :
           ProcessFile(f, read, total)
    \/ \E ok \in BOOLEAN : ProcessChunk(ok)
    \/ \E removed \in BOOLEAN : RemoveFile(removed)

SpecIngest == InitIngest /\ [][NextIngest]_vars

\* ------------------------------------------------------------------ telegram typing
InitTyping ==
    /\ InitSched({NoRow})
    /\ hist = NoHistory
    /\ col = NoCollect
    /\ tm = NoTicker
    /\ mem = NoMem
    /\ ad = NoAdapter
    /\ em = NoEmail
    /\ th = NoThread
    /\ tg = NoTelegram
    /\ wh = NoWebhook
    /\ lk = NoLinks
    /\ ing = NoIngest
    /\ ty = NoTyping

\* stop_typing: the handle of the conversation is removed and aborted
stop_typing(typing, conversation_id) ==
    [typing EXCEPT !.typing_tasks[conversation_id] = 0,
                   !.live = @ \ {typing.typing_tasks[conversation_id]}]

\* send_status(Thinking): a task is spawned and its handle inserted under the
\* conversation; the handle that was there is dropped
SendStatusThinking(conv) ==
    /\ ty.spawned < MaxTypingTasks
    /\ LET t == ty.spawned + 1
       IN  ty' = [ty EXCEPT !.spawned = t, !.conv[t] = conv, !.live = @ \cup {t},
                            !.typing_tasks[conv] = t, !.quiet[conv] = FALSE]
    /\ UNCHANGED exceptTyping

\* respond() with Text, RichMessage, ThreadReply, File or StreamStart, and
\* send_status with another status: stop_typing first
TypingRespond(conv) ==
    /\ ty' = [stop_typing(ty, conv) EXCEPT !.quiet[conv] = TRUE]
    /\ ty' # ty
    /\ UNCHANGED exceptTyping

\* send_chat_action fails and the loop of the task breaks
TypingTaskEnds(t) ==
    /\ t \in ty.live
    /\ ty' = [ty EXCEPT !.live = @ \ {t}]
    /\ UNCHANGED exceptTyping

\* shutdown(): typing_tasks is drained and every handle in it aborted
TypingShutdown ==
    /\ ty' = [ty EXCEPT !.typing_tasks = [c \in Conversations |-> 0],
                        !.live = @ \ {ty.typing_tasks[c] : c \in Conversations},
                        !.quiet = [c \in Conversations |-> TRUE]]
    /\ ty' # ty
    /\ UNCHANGED exceptTyping

NextTyping ==
    \/ \E conv \in Conversations : SendStatusThinking(conv)
    \/ \E conv \in Conversations : TypingRespond(conv)
    \/ \E t \in TypingTasks : TypingTaskEnds(t)
    \/ TypingShutdown

SpecTyping == InitTyping /\ [][NextTyping]_vars

\* ------------------------------------------------------------------ conversation log
InitHistory ==
    /\ InitSched({NoRow})
    /\ col = NoCollect
    /\ tm = NoTicker
    /\ mem = NoMem
    /\ ad = NoAdapter
    /\ em = NoEmail
    /\ th = NoThread
    /\ tg = NoTelegram
    /\ wh = NoWebhook
    /\ lk = NoLinks
    /\ ing = NoIngest
    /\ ty = NoTyping
    /\ hist = NoHistory

\* the clock of the database moves on by a second
HistoryTick ==
    /\ hist.clock < MaxLogClock
    /\ hist' = [hist EXCEPT !.clock = @ + 1]
    /\ UNCHANGED exceptHistory

\* the body shared by log_user_message and log_bot_message: the values are
\* copied, the insert is spawned, the call returns
log_message(h, channel_id, role) ==
    [h EXCEPT !.calls = @ + 1, !.role[h.calls + 1] = role,
              !.channel[h.calls + 1] = channel_id, !.pending = @ \cup {h.calls + 1}]

LogUserMessage(channel_id) ==
    /\ hist.calls < MaxLogCalls
    /\ hist' = log_message(hist, channel_id, "user")
    /\ UNCHANGED exceptHistory

LogBotMessage(channel_id) ==
    /\ hist.calls < MaxLogCalls
    /\ hist' = log_message(hist, channel_id, "assistant")
    /\ UNCHANGED exceptHistory

\* a spawned task runs its INSERT: created_at is not bound, the database sets
\* it.  Err: the failure is logged and no row is written.
InsertMessage(m, ok) ==
    /\ m \in hist.pending
    /\ hist' = [hist EXCEPT !.pending = @ \ {m},
                        !.rows = IF ok THEN Append(@, [message |-> m, created_at |-> hist.clock])
                                 ELSE @]
    /\ UNCHANGED exceptHistory

\* The orders in which ORDER BY created_at DESC may return the rows of a
\* channel: any order with created_at descending, rows with equal created_at
\* in any order.
DescendingOrders(channel_id) ==
    LET idx == {i \in DOMAIN hist.rows : hist.channel[hist.rows[i].message] = channel_id}
        n == Cardinality(idx)
    IN  {o \in [1..n -> idx] :
            /\ \A i, j \in 1..n : i # j => o[i] # o[j]
            /\ \A i, j \in 1..n :
                  i < j => hist.rows[o[i]].created_at >= hist.rows[o[j]].created_at}

reverse(s) == [i \in 1..Len(s) |-> s[Len(s) + 1 - i]]

\* load_recent: the first `limit` rows of the query, reversed
load_recent(order, limit) ==
    LET rows == SubSeq(order, 1, Min(limit, Len(order)))
    IN  reverse([i \in 1..Len(rows) |-> hist.rows[rows[i]].message])

LoadRecent(channel_id, limit) ==
    /\ hist.loads < MaxLoads
    /\ \E order \in DescendingOrders(channel_id) :
          hist' = [hist EXCEPT !.loads = @ + 1, !.loaded = load_recent(order, limit)]
    /\ UNCHANGED exceptHistory

NextHistory ==
    \/ HistoryTick
    \/ \E channel_id \in Channels : LogUserMessage(channel_id)
    \/ \E channel_id \in Channels : LogBotMessage(channel_id)
    \/ \E m \in LogMessages, ok \in BOOLEAN : InsertMessage(m, ok)
    \/ \E channel_id \in Channels, limit \in 1..MaxLogCalls : LoadRecent(channel_id, limit)

SpecHistory == InitHistory /\ [][NextHistory]_vars

\* ------------------------------------------------------------------ properties
LiveTimers(id) == {t \in Tasks : task[t].id = id /\ Live(t)}

\* Channel runtimes alive under the channel id "cron:{id}": those owned by a
\* timer's run_cron_job, those owned by a trigger_now, and the detached ones.
LiveChannels(id) ==
    Cardinality({t \in Tasks : task[t].id = id /\ task[t].chan})
    + Cardinality({c \in Callers : caller[c].id = id /\ caller[c].chan})
    + detached[id]

Quiescent == \A c \in Callers : caller[c].op = "idle"

\* The steps of run_cron_job, from the spawn of the channel to its result.
Executing(t) == task[t].pc \in {"send", "collect", "deliver"}

\* C2: at every instant at most one channel runtime is alive for the channel
\* id "cron:{id}" of a job.
C2_OneChannelRuntime == \A id \in Ids : LiveChannels(id) <= 1

\* C3: once every register and set_enabled call has returned, at most one
\* timer task is live per job id.
C3_AtMostOneTimer ==
    Quiescent => \A id \in Ids : Cardinality(LiveTimers(id)) <= 1

\* C1: a timer whose execution was the third failed execution in a row of its
\* job, as the job is registered now, never starts another execution.
C1_NoFourthExecution == \A t \in Tasks : task[t].third => ~Executing(t)

\* C5: in the step in which set_enabled(id, false) or unregister(id) returns
\* Ok, no timer task of id is left waiting for a tick.
C5_NoTimerAfterDisable ==
    [][\A c \in Callers :
          ( /\ \/ caller[c].op = "unregister"
               \/ caller[c].op = "set_enabled" /\ ~caller[c].en
            /\ caller'[c].op = "idle"
            /\ caller'[c].ret = "ok" )
          => \A t \in Tasks :
                task'[t].id = caller[c].id => task'[t].pc \notin {"init", "sleep"}]_vars

\* C7: the breaker trips (the Err arm finds should_disable) only when the last
\* three executions of the job by its timers all failed.
C7_TripsOnlyAfterThreeInARow ==
    [][\A t \in Tasks :
          (task[t].pc = "err" /\ task'[t].pc = "dis")
          => streak[task[t].id].run >= MAX_CONSECUTIVE_FAILURES]_vars

\* C10: a create whose id exists already, in the scheduler or in the store,
\* changes neither the job, nor its row, nor its timer, and returns an error.
C10_CollisionRejected ==
    [][\A c \in Callers :
          (caller[c].op = "create" /\ caller[c].dup /\ caller'[c] # caller[c])
          => /\ jobs' = jobs
             /\ store' = store
             /\ timers' = timers
             /\ task' = task
             /\ caller'[c].op = "idle" /\ caller'[c].ret = "err"]_vars

\* The steps of an operation that begin with jobs.read() or jobs.write().
JobsSteps == {"reg", "se", "se_cold", "se_w", "un_j", "tn"}

\* The steps of an operation that begin with timers.write().
TimersSteps == {"st1", "st2", "se_t", "un_t", "sh"}

\* C6 as stated: an operation that has taken the timers lock does not go on
\* to take the jobs lock.
C6_OrderJobsThenTimers ==
    \A c \in Callers : caller[c].tk => caller[c].pc \notin JobsSteps

\* C6 amended: whenever a process is suspended, no table lock is held, and
\* every operation in progress and every live timer task can take its next
\* step: the lock order is not kept, but no guard outlives its block.
C6_NoGuardAcrossAwait ==
    /\ jobsLock = [w |-> NoOne, r |-> {}]
    /\ timersLock = NoOne
    /\ \A c \in Callers : caller[c].op # "idle" => ENABLED OpStep(c)
    /\ \A t \in Tasks : Live(t) => ENABLED TimerStep(t)

\* An unregister that has dropped the timers guard and is about to take the
\* jobs lock, while a register that has dropped the jobs guard is about to
\* take the timers lock.
C6_Witness ==
    \E c, d \in Callers :
        /\ caller[c].op = "unregister" /\ caller[c].pc = "un_j"
        /\ caller[d].op = "register" /\ caller[d].pc = "st1"

C9_TimerLiveIffEnabled ==
    [][\A c \in Callers :
          (caller[c].op = "register" /\ caller'[c].op = "idle"
           /\ caller'[c].ret = "ok")
          => ( (\E t \in Tasks : task'[t].id = caller[c].id /\ LivePc(task'[t].pc))
               <=> caller[c].cfg.enabled )]_vars

\* C9 amended: register calls start_timer exactly when config.enabled.  When it
\* returns, with config.enabled it has spawned a timer task for config.id and
\* the timers table holds that task's handle; without, it has spawned nothing
\* and has left the timers table and every timer task as they were.
C9_StartsTimerIffEnabled ==
    [][\A c \in Callers :
          (caller[c].op = "register" /\ caller'[c].op = "idle")
          => /\ caller'[c].ret = "ok"
             /\ IF caller[c].cfg.enabled
                THEN /\ caller[c].h # 0
                     /\ task[caller[c].h].id = caller[c].id
                     /\ timers'[caller[c].id] = caller[c].h
                ELSE /\ caller[c].h = 0
                     /\ timers' = timers
                     /\ \A t \in Tasks : task'[t].pc = task[t].pc]_vars

\* A register with enabled = false is replacing the job of a live timer.
C9_Witness ==
    \E c \in Callers :
        /\ caller[c].op = "register" /\ caller[c].pc = "reg"
        /\ ~caller[c].cfg.enabled
        /\ LiveTimers(caller[c].id) # {}

\* C4: while responses are being collected, no more than timeout_secs seconds
\* have passed since the collection began.
C4_WallClockBound == col.pc = "recv" => col.elapsed <= col.timeout

\* C11: when run_cron_job has returned, it has broadcast nothing if no
\* collected text has a character that is not white space (with or without a
\* timeout); otherwise it has broadcast once, to the job's delivery target, the
\* collected texts separated by a blank line.
C11_OneBroadcastIffText ==
    col.pc = "done" =>
        IF \E i \in 1..Len(col.texts) : \E k \in 1..Len(col.texts[i]) :
               col.texts[i][k] \notin {" ", "\n"}
        THEN /\ Len(col.sent) = 1
             /\ col.sent[1].adapter = JobTarget.adapter
             /\ col.sent[1].target = JobTarget.target
             /\ col.sent[1].text = join(col.texts, BlankLine)
        ELSE col.sent = <<>>

\* A run that timed out after it collected only a blank text has ended without
\* a broadcast.
C11_Witness ==
    /\ col.pc = "done"
    /\ col.chan = "aborted"
    /\ col.texts = <<<<" ">>>>
    /\ col.sent = <<>>

\* C12: for an interval below a day that divides the day, the first tick of a
\* timer started at time t fires within the second of the next multiple of the
\* interval strictly after t (the fraction of a second of t is carried over);
\* every later deadline lies a whole number of intervals after the first, and a
\* tick that is not late fires at its deadline.
C12_FirstTickAligned ==
    LET i == tm.interval_secs
        boundary == ((tm.start \div Hz) \div i + 1) * i
    IN
    (tm.pc \in {"wait", "work"} /\ i < SECS_PER_DAY /\ SECS_PER_DAY % i = 0)
    => /\ boundary * Hz > tm.start
       /\ tm.first \div Hz = boundary
       /\ tm.deadline >= tm.first
       /\ (tm.deadline - tm.first) % (Hz * i) = 0
       /\ (tm.pc = "work" /\ tm.fires = 1) => tm.now = tm.first
       /\ (tm.pc = "work" /\ ~tm.late) => (tm.now - tm.first) % (Hz * i) = 0
       /\ tm.pc = "work" => tm.deadline > tm.now /\ tm.deadline - tm.now <= Hz * i

\* A timer with interval 4 s started at a time that is a multiple of 4 s has
\* fired twice, the second time on the cadence.
C12_Witness ==
    /\ tm.pc = "work" /\ tm.fires = 2 /\ ~tm.late
    /\ tm.interval_secs = 4 /\ tm.start = 4 * Hz
    /\ tm.first = 8 * Hz

\* C13: on a tick the job executes exactly when it has no active hours or the
\* current hour lies in [start, end), a window that wraps past midnight
\* whenever end <= start.
C13_ActiveHoursWindow ==
    LET ah == tm.active_hours
        h == tm.hour
    IN
    (tm.pc = "work" /\ ah # <<>>)
    => ( tm.ran <=> IF ah[2] <= ah[1] THEN h >= ah[1] \/ h < ah[2]
                    ELSE h >= ah[1] /\ h < ah[2] )

\* ---- memory store and search (SpecMem)
Returned == {mem.results[i].id : i \in DOMAIN mem.results}

\* the last search saw the tables as they are now
Fresh == mem.calls > 0 /\ ~mem.dirty

RECURSIVE Within(_, _, _)
Within(associations, S, n) ==
    IF n = 0 THEN S
    ELSE Within(associations,
                S \cup {AssocSamples[a].target_id :
                           a \in {b \in associations :
                                     AssocSamples[b].source_id \in S}}
                  \cup {AssocSamples[a].source_id :
                           a \in {b \in associations :
                                     AssocSamples[b].target_id \in S}},
                n - 1)

Seeds == Range(matching_seeds(mem.memories, mem.args.query))

\* C14: no memory whose row has forgotten = true is in the list hybrid_search
\* returned, whether the full-text matches, the vector matches or the graph
\* traversal from a seed led to it.
C14_ForgottenNeverReturned ==
    Fresh => \A id \in Returned : /\ mem.memories[id].present
                                  /\ ~mem.memories[id].forgotten

\* a search returned something while a forgotten memory was among the
\* full-text matches, among the vector matches and next to a matching seed
C14_Witness ==
    /\ Fresh
    /\ mem.results # <<>>
    /\ \E id \in MemIds :
          /\ mem.memories[id].forgotten
          /\ id \in Range(mem.args.fts.ids) \cap Range(mem.args.vec.ids)
          /\ id \in Within(mem.associations, Seeds, 1) \ Seeds

\* C15: a memory that has been marked forgotten is returned by none of
\* get_by_type, get_high_importance and hybrid_search, whatever store
\* operations came after the mark.
C15_ForgettingIsTerminal ==
    \A id \in mem.tomb :
        /\ id \notin Range(get_by_type(mem.memories, "fact", NumMemories))
        /\ id \notin Range(get_high_importance(mem.memories, 0, NumMemories))
        /\ Fresh => id \notin Returned

\* C16: the list hybrid_search returns is in descending order of score and
\* holds no memory id twice.
C16_SortedNoDuplicates ==
    \A i, j \in DOMAIN mem.results :
        i < j => /\ mem.results[i].score >= mem.results[j].score
                 /\ mem.results[i].id # mem.results[j].id

\* a returned list with two different scores, one of them the sum of the
\* shares of two sources
C16_Witness ==
    /\ Fresh
    /\ \E i, j \in DOMAIN mem.results :
          /\ mem.results[i].score > mem.results[j].score
          /\ mem.results[i].id \in Range(mem.args.fts.ids)
                                      \cap Range(mem.args.vec.ids)

\* C17: a call of hybrid_search with the query, the configuration, the
\* full-text and vector answers of the call before it, on tables that have not
\* changed in between, returns the list the call before it returned.
C17_SameInputsSameResults ==
    [][(Fresh /\ mem'.calls = mem.calls + 1 /\ mem'.args = mem.args)
          => mem'.results = mem.results]_vars

\* C18: every memory the graph pass collected is within max_graph_depth
\* associations of a seed that matches the query.
C18_WithinMaxGraphDepth ==
    Fresh => Range(mem.graph)
                \subseteq Within(mem.associations, Seeds,
                                 mem.args.config.max_graph_depth)

\* C19: forget on a row that is there and not forgotten returns true; a second
\* forget of the same id right after it returns false and changes no table.
C19_ForgetTwice ==
    [][\A id \in MemIds :
          (mem'.nops = mem.nops + 1 /\ mem'.last.op = "forget"
                                    /\ mem'.last.id = id)
          => /\ (mem.memories[id].present /\ ~mem.memories[id].forgotten)
                   => mem'.last.ret /\ mem'.memories[id].forgotten
             /\ (mem.last = [op |-> "forget", id |-> id, ret |-> TRUE])
                   => /\ ~mem'.last.ret
                      /\ mem'.memories = mem.memories
                      /\ mem'.associations = mem.associations]_vars

\* forget(id) has returned true and then, called again, false
C19_Witness ==
    /\ mem.last.op = "forget" /\ ~mem.last.ret
    /\ mem.nops = 2
    /\ mem.memories[mem.last.id].forgotten
    /\ mem.memories[mem.last.id].updated_at = 1

\* ---- adapters (SpecAdapter)
\* the ingest loop waits for room in the inbound channel, which nobody makes
IngestBlocked ==
    ad.ingest = "send" /\ ad.consumer /\ ad.inbound = InboundCapacity

\* C20: a call of shutdown() that follows one that has returned does not wait
\* on an ingest task that is itself blocked, whatever the state of the
\* adapter, and returns with the adapter as the first call left it.
C20_SecondShutdownReturns ==
    ad.returned >= 1 =>
        /\ ~(ad.call # "idle" /\ IngestBlocked)
        /\ \A i \in DOMAIN ad.left : ad.left[i] = ad.left[1]

\* a sender of the inbound stream is alive: the one the ingest task owns, or
\* the one the webhook adapter keeps in its inbound_tx field
SenderAlive ==
    IF ad.kind = "webhook" THEN ad.inbound_tx
    ELSE ad.ingest \in {"select", "send"}

\* C21: once shutdown() has returned and the task start() spawned has ended,
\* no sender of the inbound stream is left, so that the consumer of the stream
\* sees its end.
C21_StreamClosedAfterShutdown ==
    (ad.returned >= 1 /\ ad.call = "idle" /\ ad.ingest = "gone")
        => ~SenderAlive

\* C22: once the shutdown channel holds the signal, the ingest task is not
\* waiting for room in the inbound stream, and it takes up at most one more
\* message before it stops.
C22_StopsWithinOneCycle ==
    (ad.signal > 0 /\ ad.kind # "webhook")
        => ~IngestBlocked /\ ad.after <= 1

Accepted == {u \in MailIds : em.mail[u].kind = "accepted"}

RECURSIVE Pow2(_)
Pow2(n) == IF n = 0 THEN 1 ELSE 2 * Pow2(n - 1)

\* C24: a mail whose fetch failed, whose body was missing or which did not
\* parse in the last poll is not flagged \Seen: the next search for unseen
\* mail returns it again.
C24_FailedFetchStaysUnseen == em.failed \cap em.seen = {}

\* C25: between two polls every accepted mail that is flagged \Seen has gone
\* out on the inbound stream, and no mail has gone out twice.
C25_OneMessagePerMail ==
    em.pc = "sleep" =>
        \A u \in Accepted : /\ u \in em.seen => em.emitted[u] >= 1
                            /\ em.emitted[u] <= 1

\* C30: the sleep after the n-th failed poll in a row is 5 * 2^(n-1) seconds
\* and at most 300; after a poll that succeeded the backoff is 5 seconds again.
C30_BackoffSchedule ==
    /\ em.retry_backoff <= EMAIL_MAX_RETRY_BACKOFF_SECS
    /\ (em.pc = "sleep" /\ em.fails > 0)
          => em.delay = Min(INITIAL_RETRY_BACKOFF_SECS * Pow2(em.fails - 1),
                            EMAIL_MAX_RETRY_BACKOFF_SECS)
    /\ (em.pc # "off" /\ em.fails = 0)
          => em.retry_backoff = INITIAL_RETRY_BACKOFF_SECS

\* the eighth failed poll in a row: the sleep has reached the ceiling
C30_Witness ==
    /\ em.pc = "sleep"
    /\ em.fails = 8
    /\ em.delay = EMAIL_MAX_RETRY_BACKOFF_SECS

\* C26: any two mails of one account whose References headers begin with the
\* same root message id get the same conversation_id, whatever their
\* In-Reply-To, Message-ID, subject and sender are.
RootOf(mail) ==
    IF mail.references.some /\ mail.references.v # <<>> /\ Head(mail.references.v).bracketed
    THEN normalize_message_id(Head(mail.references.v).text)
    ELSE ""

C26_SameRootSameConversation ==
    \A i, j \in DOMAIN th.log :
        (RootOf(th.log[i].mail) # "" /\ RootOf(th.log[i].mail) = RootOf(th.log[j].mail))
            => th.log[i].conversation_id = th.log[j].conversation_id

\* C27: at least one second lies between any two successive edits of the
\* streamed message of one Telegram conversation.  An HTML request that Telegram
\* turned down with CantParseEntities is not counted as an edit: the plain-text
\* request that follows it stands in its place.
Edits == {i \in DOMAIN tg.log : tg.log[i].result # "cant_parse_entities"}

C27_EditsOneSecondApart ==
    \A i, j \in Edits :
        (i < j /\ tg.log[i].conv = tg.log[j].conv
               /\ tg.log[i].message_id = tg.log[j].message_id)
            => tg.log[j].at - tg.log[i].at >= STREAM_EDIT_INTERVAL

\* C28 as stated: webhook responses are buffered per conversation until polled;
\* every response handed to respond() for a conversation is returned by exactly
\* one later poll of that conversation, in emission order, whatever the
\* interleaving.  As a state property: what the polls of a conversation
\* returned so far, followed by what its buffer holds for the next poll, is the
\* sequence of responses emitted for it.
Serials(responses) == [i \in DOMAIN responses |-> responses[i].n]

C28_EveryResponsePolledOnce ==
    \A k \in WebhookKeys :
        Serials(wh.polled[k]) \o Serials(wh.buffers[k]) = Serials(wh.emitted[k])

\* C28 amended: the same for the responses that respond() turns into a
\* WebhookResponse; Reaction, RemoveReaction and Status are dropped.
Buffered(responses) == SelectSeq(responses, LAMBDA r : response_type(r.variant) # "")

C28_BufferedResponsePolledOnce ==
    \A k \in WebhookKeys :
        Serials(wh.polled[k]) \o Serials(wh.buffers[k]) = Serials(Buffered(wh.emitted[k]))

C28_Witness ==
    \E k \in WebhookKeys :
        /\ wh.polls >= 2
        /\ Len(wh.polled[k]) >= 2
        /\ wh.buffers[k] # <<>>
        /\ wh.polled[k][1].n < wh.polled[k][2].n

\* C29: of two POST /api/links with the same {from, to} the first returns 201
\* and the second 409, and the link list in memory then holds exactly one edge
\* for the pair: no two requests for one pair are both answered 201, and once
\* one was, the list holds one edge for the pair.
EdgesOf(links, from, to) == {i \in DOMAIN links : links[i] = Edge(from, to)}

C31_FailedChunkKeepsFile ==
    \A f \in IngestFiles : ing.file[f].failed # {} => ing.file[f].present

\* C32: when the timer task of a job is aborted while one of its executions is
\* in flight, the channel task of that execution is stopped too: no channel
\* task of the job runs without the timer task that spawned it.
C32_NoChannelOutlivesTimer == \A id \in Ids : detached[id] = 0

\* C33: an execution that ended because the collection timeout expired is not
\* treated as a success.  run_cron_job returns Ok(()) only past
\* log_execution(id, true, summary), and on Ok(()) start_timer sets
\* consecutive_failures to 0: the execution must not end with result "ok".
TimedOut == col.chan = "aborted"

C33_TimeoutIsNotSuccess == (col.pc = "done" /\ TimedOut) => col.result # "ok"

\* C34: re-enabling a job that the circuit breaker disabled gives it a fresh
\* failure budget: when set_enabled(id, true) turns the flag of a job back on
\* that the breaker had turned off, the job's consecutive_failures is 0 again,
\* so that it takes MAX_CONSECUTIVE_FAILURES further failures to trip.
TrippedOff(id) ==
    jobs[id].present /\ ~jobs[id].enabled /\ jobs[id].fails >= MAX_CONSECUTIVE_FAILURES

C34_ReenableResetsFailures ==
    [][\A c \in Callers :
          (caller[c].pc = "se_w" /\ caller[c].en /\ TrippedOff(caller[c].id)
             /\ caller'[c].pc # "se_w")
          => jobs'[caller[c].id].fails = 0]_vars

\* C35: when the create action of the cron tool returns an error the store is
\* unchanged: the call has written no row, new or over an old one.
C35_FailedCreateLeavesStore ==
    [][\A c \in Callers :
          (caller[c].op = "create" /\ caller'[c].op = "idle" /\ caller'[c].ret = "err")
          => store' = store]_vars

\* C36: create_link is atomic with respect to the other link mutations: once
\* the requests have returned, the link list in memory is what the successful
\* requests give when they are applied one after the other in some order in
\* which each of them succeeds.  No created link is lost, no pair is admitted twice.
Successful == {r \in LinkRequests : lk.req[r].status \in {"CREATED", "NO_CONTENT"}}

Admits(r, links) ==
    IF lk.req[r].status = "CREATED"
    THEN ~duplicate(links, lk.req[r].from, lk.req[r].to)
    ELSE duplicate(links, lk.req[r].from, lk.req[r].to)

Applied(r, links) ==
    IF lk.req[r].status = "CREATED"
    THEN Append(links, Edge(lk.req[r].from, lk.req[r].to))
    ELSE without(links, lk.req[r].from, lk.req[r].to)

RECURSIVE Serial(_, _)
Serial(rs, links) ==
    IF rs = {} THEN {links}
    ELSE UNION {Serial(rs \ {r}, Applied(r, links)) : r \in {q \in rs : Admits(q, links)}}

C36_LinkMutationsSerializable ==
    (\A r \in LinkRequests : lk.req[r].pc \in {"new", "done"})
        => lk.agent_links \in Serial(Successful, <<>>)

\* C37: for each Telegram conversation at most one typing indicator task is
\* live at any time, and none is live once a response has been sent for the
\* conversation or the adapter has shut down.
LiveTyping(conv) == {t \in ty.live : ty.conv[t] = conv}

C37_OneTypingTask ==
    \A conv \in Conversations :
        /\ Cardinality(LiveTyping(conv)) <= 1
        /\ ty.quiet[conv] => LiveTyping(conv) = {}

\* C38: once StreamEnd has been handled the streamed message shows the text of
\* the last StreamChunk received for it; a chunk that the edit throttle
\* suppressed is not lost from the final message.
C38_FinalTextIsLastChunk ==
    \A m \in StreamMessages :
        (tg.message[m].ended /\ tg.message[m].received > 0)
            => tg.message[m].shown = tg.message[m].received

\* C39: for one channel, when log call A returns before log call B is issued,
\* load_recent returns A's message before B's once both rows are written.
\* Message numbers are call numbers, and every call returns before the next.
C39_LoadedInCallOrder ==
    \A i, j \in DOMAIN hist.loaded :
        i < j => hist.loaded[i] < hist.loaded[j]

\* the terms a list may give to a memory when it counts it once: nothing, or
\* 1 / (k + rank) for one rank at which the list holds it
OneTerm(list, id, k) ==
    {0} \cup {RrfScale \div (k + rank) :
                 rank \in {r \in DOMAIN list : list[r] = id}}

\* C40: in reciprocal-rank fusion a memory gets at most one term
\* 1 / (rrf_k + rank) from each of the three source lists (full-text, vector,
\* graph), also when the graph pass reaches it from several seeds: the score
\* of every returned memory is a sum of one such term per list.
C40_OneTermPerList ==
    Fresh =>
        \A i \in DOMAIN mem.results :
            LET id == mem.results[i].id
                k == mem.args.config.rrf_k
            IN  \E v \in OneTerm(source_results(mem.memories, mem.args.vec), id, k),
                   f \in OneTerm(source_results(mem.memories, mem.args.fts), id, k),
                   g \in OneTerm(mem.graph, id, k) :
                    mem.results[i].score = v + f + g

====
